---------------------------- MODULE Spec2Model ----------------------------
(***************************************************************************)
(* Food-donation backend (server/index.js): the listing lifecycle, the     *)
(* claim ledger and their side effects.                                    *)
(*                                                                         *)
(* Every route handler is an async function.  Between two awaits a handler *)
(* runs without interruption; at an await any other handler may run.  One  *)
(* action of this module is therefore one awaited store operation together *)
(* with the synchronous code that follows it up to the next await (the     *)
(* checks, the early returns, the io.emit calls, the response).            *)
(***************************************************************************)
EXTENDS Naturals, Integers, Sequences, FiniteSets, TLC

(* ------------------------------ bounds -------------------------------- *)
\* requests accepted in one behaviour when handlers interleave
MaxRequests == 4
\* requests accepted in one behaviour when handlers run one after another
MaxSerialRequests == 5
\* requests accepted in one behaviour of the server with its chat routes
MaxChatRequests == 3
\* requests accepted in one behaviour of the listing and query routes
MaxListingRequests == 4
\* requests accepted in a run in which notifications may fail
MaxFaultRequests == 3
\* requests accepted in a run of the chat routes
MaxMessageRequests == 4
\* requests accepted in a run of the registration and profile routes
MaxProfileRequests == 4
\* requests accepted in a run in which each handler runs alone and no update
\* carries a status
MaxAtomicRequests == 5
\* socket events handled in a run of the socket handlers
MaxSignals == 5
\* socket events handled, and requests accepted, in a run of the socket
\* handlers next to the chat route
MaxJoins == 2
MaxRealtimeRequests == 1

(* ------------------------------ values -------------------------------- *)
None == "none"

\* external identity strings: "a" and "b" have a profile, "x" has none
UserIds == {"a", "b", "x"}

\* FoodListingSchema.status enum
ListingStatuses == {"available", "reserved", "claimed", "expired"}

\* FoodClaimSchema.status enum
ClaimStatuses == {"pending", "confirmed", "picked-up", "cancelled"}

\* FoodClaimSchema.claimType enum
ClaimTypes == {"reserved", "claimed"}

\* the statuses of a live claim (the $in list of the unclaim query)
LiveStatuses == {"pending", "confirmed"}

\* the handlers that may be in flight at the same time
Slots == {1, 2}

\* the _id values requests name; the store gives them out in this order
ListingIds == {1, 2}

\* the profile collections, by the role tag getUserByClerkId gives them
Kinds == {"individual", "ngo", "social-worker"}

\* the identities registrations name, and the userType a registration body
\* carries (None: the body has none)
ProfileIds == {"a", "b"}
BodyUserTypes == {None, "ngo"}

\* the sockets clients may open
SocketIds == {"s1", "s2", "s3"}

\* request bodies of create and update: the fields that reach the listing
\* document besides the descriptive ones; None is "field not sent"
CreateBodies == {[status |-> s, isActive |-> None, donorId |-> None] :
                    s \in {None, "expired"}}
UpdateBodies == {[status |-> s, isActive |-> None, donorId |-> None] :
                    s \in {None, "expired"}}
NoBody == [status |-> None, isActive |-> None, donorId |-> None]

\* query parameters: the status filter (None is "not sent"), limit and page
StatusFilters == ListingStatuses \cup {None}
Limits == {1, 20}
Pages == {1, 2}

\* the result of a findById that found nothing
NoListing == [found |-> FALSE, donorId |-> None, status |-> None]

(* ------------------------------ state --------------------------------- *)
VARIABLES
    Individual,     \* profile collections: sets of profile documents
    NGO,
    SocialWorker,
    FoodListing,    \* listing collection: the document with _id i is at i
    FoodClaim,      \* claim ledger, in insertion order
    Notification,   \* notification collection, in insertion order
    ChatMessage,    \* chat log, in insertion order
    result,         \* the body of the last read response: the listings, or
                    \* the userType of the profile
    io,             \* the events emitted by the last step, in emit order
    req,            \* the handler running in each slot
    res,            \* the response sent by the last step
    budget,         \* requests that may still be accepted
    sockets,        \* each socket: is it connected, the rooms it has joined
    signal          \* the last socket event the server handled

profiles == <<Individual, NGO, SocialWorker>>
stores == <<FoodListing, FoodClaim, Notification>>
\* what the listing and claim routes never touch
realtime == <<sockets, signal>>
aside == <<ChatMessage, result, realtime>>
vars == <<Individual, NGO, SocialWorker, FoodListing, FoodClaim, Notification,
          ChatMessage, result, io, req, res, budget, sockets, signal>>

\* a slot with no handler in it
\* (claim: the position of the claim document the handler holds; donorId:
\* the donorId of the listing document the chat handler read; userId: the
\* userId argument of the createNotification call the handler is in;
\* userType: the userType of the profile the handler looked up, or the
\* userType a registration will store)
Idle == [op |-> "idle", clerkUserId |-> None, id |-> 0, body |-> NoBody,
         pc |-> "idle", claim |-> 0, donorId |-> None, userId |-> None,
         userType |-> None]

\* no socket event was handled yet (n: the socket events handled so far;
\* to: the sockets the event was relayed to)
NoSignal == [n |-> 0, socket |-> None, event |-> None, user |-> None,
             id |-> 0, to |-> {}]

\* no response was sent
NoRes == [op |-> "idle", clerkUserId |-> None, id |-> 0, code |-> 0]

Stores0 ==
    /\ Individual = {[clerkUserId |-> "a", userType |-> "individual"]}
    /\ NGO = {[clerkUserId |-> "b", userType |-> "ngo"]}
    /\ SocialWorker = {}
    /\ FoodListing = <<>>
    /\ FoodClaim = <<>>
    /\ Notification = <<>>
    /\ ChatMessage = <<>>
    /\ result = <<>>
    /\ io = <<>>
    /\ req = [r \in Slots |-> Idle]
    /\ res = NoRes
    /\ sockets = [s \in SocketIds |-> [connected |-> FALSE, rooms |-> {}]]
    /\ signal = NoSignal

\* the server after start-up, the profiles of "a" and "b" registered
Init == Stores0 /\ budget = MaxRequests

(* ----------------------------- helpers -------------------------------- *)
\* (a lookup that answers a default profile for an unknown identity)
getUserByClerkId_Default(clerkUserId) ==
    IF \E p \in NGO : p.clerkUserId = clerkUserId THEN "ngo"
    ELSE IF \E p \in SocialWorker : p.clerkUserId = clerkUserId
         THEN "social-worker"
    ELSE "individual"

\* getUserByClerkId: Individual, then NGO, then SocialWorker; the tag is the
\* collection's, not the stored userType
getUserByClerkId(clerkUserId) ==
    IF \E p \in Individual : p.clerkUserId = clerkUserId THEN "individual"
    ELSE IF \E p \in NGO : p.clerkUserId = clerkUserId THEN "ngo"
    ELSE IF \E p \in SocialWorker : p.clerkUserId = clerkUserId
         THEN "social-worker"
    ELSE None

\* FoodListing.findById
findById(id) ==
    IF id \in 1..Len(FoodListing)
    THEN [found |-> TRUE, donorId |-> FoodListing[id].donorId,
          status |-> FoodListing[id].status]
    ELSE NoListing

\* the documents FoodClaim.findOne({foodListingId, claimedBy}) may return
findOneClaim(id, clerkUserId) ==
    {i \in 1..Len(FoodClaim) : /\ FoodClaim[i].foodListingId = id
                               /\ FoodClaim[i].claimedBy = clerkUserId}

\* (the unclaim query without its status filter)
findOneLiveClaim_NoStatus(id, clerkUserId) == findOneClaim(id, clerkUserId)

\* (the unclaim query taking every record that was not cancelled)
findOneLiveClaim_NotCancelled(id, clerkUserId) ==
    {i \in findOneClaim(id, clerkUserId) : FoodClaim[i].status # "cancelled"}

\* the documents the unclaim query may return: the same, status in
\* ['pending', 'confirmed']
findOneLiveClaim(id, clerkUserId) ==
    {i \in findOneClaim(id, clerkUserId) : FoodClaim[i].status \in LiveStatuses}

\* (the check of the claim route put in the reserve route)
ReserveRejected_AsClaim(listing) == listing.status = "claimed"

\* (a reserve route without its status check)
ReserveRejected_Never(listing) == FALSE

\* reserve: if (listing.status !== 'available') return 400
ReserveRejected(listing) == listing.status # "available"

\* (the check of the reserve route put in the claim route)
ClaimRejected_AsReserve(listing) == listing.status # "available"

\* claim: if (listing.status === 'claimed') return 400
ClaimRejected(listing) == listing.status = "claimed"

\* (an ownership check that lets everyone through)
NotOwner_Nobody(listing, clerkUserId) == FALSE

\* update, delete: if (listing.donorId !== clerkUserId) return 403
NotOwner(listing, clerkUserId) == listing.donorId # clerkUserId

\* the status each handler passes to updateFoodStatus
NewStatus(op) ==
    CASE op = "reserve" -> "reserved"
      [] op = "claim" -> "claimed"
      [] op = "unclaim" -> "available"

\* (a condition that notifies the donor of the donor's own requests too)
NotifiesDonor_Always(clerkUserId, donorId) == TRUE

\* (a condition that never notifies)
NotifiesDonor_Never(clerkUserId, donorId) == FALSE

\* updateFoodStatus: if (clerkUserId && clerkUserId !== food.donorId)
NotifiesDonor(clerkUserId, donorId) == clerkUserId # donorId

\* one emitted event: io.emit(...) goes to room "all", io.to(`user_${u}`)
\* to room "user" of u; id is the listing (or notification) it carries
Emit(room, user, event, id, status) ==
    [room |-> room, user |-> user, event |-> event, id |-> id,
     status |-> status]

\* res.status(code).json(...): the handler q of slot r is over
Answer(r, q, code) ==
    /\ req' = [req EXCEPT ![r] = Idle]
    /\ res' = [op |-> q.op, clerkUserId |-> q.clerkUserId, id |-> q.id,
               code |-> code]

Respond(r, code) == Answer(r, req[r], code)

\* the handler of slot r goes on as q, to its next await
Set(r, q) ==
    /\ req' = [req EXCEPT ![r] = q]
    /\ res' = NoRes

\* a request is accepted into slot r, the first free one
Accept(r) ==
    /\ req[r].pc = "idle"
    /\ \A s \in Slots : s < r => req[s].pc # "idle"
    /\ budget > 0
    /\ budget' = budget - 1

New(op, clerkUserId, id, body) ==
    [Idle EXCEPT !.op = op, !.clerkUserId = clerkUserId, !.id = id,
                 !.body = body, !.pc = "start"]

(* ------------------------- POST /api/food/listings -------------------- *)
\* creates and submits in flight that will still insert a listing
PendingCreates ==
    Cardinality({s \in Slots : req[s].pc \in {"saveListing", "saveDonation"}})

\* the document new FoodListing({...listingData, donorId: clerkUserId, ...})
\* holds: schema defaults for the fields the body does not carry
NewListing(clerkUserId, userType, body) ==
    [donorId |-> clerkUserId,
     donorType |-> userType,
     status |-> IF body.status = None THEN "available" ELSE body.status,
     isActive |-> IF body.isActive = None THEN TRUE ELSE body.isActive = "true"]

\* await getUserByClerkId(clerkUserId); 404 when it resolves to null
Create(r, clerkUserId, body) ==
    /\ Accept(r)
    /\ Len(FoodListing) + PendingCreates < Cardinality(ListingIds)
    /\ LET q == New("create", clerkUserId, 0, body)
           user == getUserByClerkId(clerkUserId)
       IN  IF user = None
           THEN Answer(r, q, 404)
           ELSE Set(r, [q EXCEPT !.pc = "saveListing", !.userType = user])
    /\ io' = <<>>
    /\ UNCHANGED <<profiles, aside, stores>>

\* await foodListing.save(); io.emit('new-food-listing'); 201
CreateSave(r) ==
    /\ req[r].op = "create" /\ req[r].pc = "saveListing"
    /\ LET doc == NewListing(req[r].clerkUserId, req[r].userType,
                             req[r].body)
           id == Len(FoodListing) + 1
       IN  /\ FoodListing' = Append(FoodListing, doc)
           /\ io' = <<Emit("all", None, "new-food-listing", id, doc.status)>>
           /\ Answer(r, [req[r] EXCEPT !.id = id], 201)
    /\ UNCHANGED <<profiles, aside, FoodClaim, Notification, budget>>

(* ------------------------ PUT /api/food/listings/:id ------------------ *)
\* findByIdAndUpdate(id, {...updateData, updatedAt}): the fields the body
\* carries are set, no validator runs
ApplyUpdate(doc, body) ==
    [donorId |-> IF body.donorId = None THEN doc.donorId ELSE body.donorId,
     donorType |-> doc.donorType,
     status |-> IF body.status = None THEN doc.status ELSE body.status,
     isActive |-> IF body.isActive = None THEN doc.isActive
                  ELSE body.isActive = "true"]

\* await FoodListing.findById; 404 when absent, 403 when not the donor
Update(r, clerkUserId, id, body) ==
    /\ Accept(r)
    /\ LET q == New("update", clerkUserId, id, body)
           listing == findById(id)
       IN  IF ~listing.found
           THEN Answer(r, q, 404)
           ELSE IF NotOwner(listing, clerkUserId)
           THEN Answer(r, q, 403)
           ELSE Set(r, [q EXCEPT !.pc = "updateListing"])
    /\ io' = <<>>
    /\ UNCHANGED <<profiles, aside, stores>>

\* await FoodListing.findByIdAndUpdate; io.emit('food-listing-updated'); 200
UpdateWrite(r) ==
    /\ req[r].op = "update" /\ req[r].pc = "updateListing"
    /\ LET id == req[r].id
           doc == ApplyUpdate(FoodListing[id], req[r].body)
       IN  /\ FoodListing' = [FoodListing EXCEPT ![id] = doc]
           /\ io' = <<Emit("all", None, "food-listing-updated", id, doc.status)>>
    /\ Respond(r, 200)
    /\ UNCHANGED <<profiles, aside, FoodClaim, Notification, budget>>

(* ---------------------- DELETE /api/food/listings/:id ----------------- *)
Delete(r, clerkUserId, id) ==
    /\ Accept(r)
    /\ LET q == New("delete", clerkUserId, id, NoBody)
           listing == findById(id)
       IN  IF ~listing.found
           THEN Answer(r, q, 404)
           ELSE IF NotOwner(listing, clerkUserId)
           THEN Answer(r, q, 403)
           ELSE Set(r, [q EXCEPT !.pc = "deactivate"])
    /\ io' = <<>>
    /\ UNCHANGED <<profiles, aside, stores>>

\* await FoodListing.findByIdAndUpdate(id, {isActive: false});
\* io.emit('food-listing-deleted'); 200
DeleteWrite(r) ==
    /\ req[r].op = "delete" /\ req[r].pc = "deactivate"
    /\ LET id == req[r].id
       IN  /\ FoodListing' = [FoodListing EXCEPT ![id].isActive = FALSE]
           /\ io' = <<Emit("all", None, "food-listing-deleted", id, None)>>
    /\ Respond(r, 200)
    /\ UNCHANGED <<profiles, aside, FoodClaim, Notification, budget>>

(* ------------------------ POST /api/food/reserve/:id ------------------ *)
\* await FoodListing.findById; 404 when absent, 400 when not available;
\* await getUserByClerkId; 404 when null.
\* The profile reads are taken in the step of the read before them: no
\* handler of this specification writes a profile collection, so they
\* return the same at any later moment.
Reserve(r, clerkUserId, id) ==
    /\ Accept(r)
    /\ LET q == New("reserve", clerkUserId, id, NoBody)
           listing == findById(id)
       IN  IF ~listing.found
           THEN Answer(r, q, 404)
           ELSE IF ReserveRejected(listing)
           THEN Answer(r, q, 400)
           ELSE IF getUserByClerkId(clerkUserId) = None
           THEN Answer(r, q, 404)
           ELSE Set(r, [q EXCEPT !.pc = "saveClaim"])
    /\ io' = <<>>
    /\ UNCHANGED <<profiles, aside, stores>>

\* (a save that reads the listing again and gives up when it is no longer
\* available)
ReserveSave_Rechecks(r) ==
    /\ req[r].op = "reserve" /\ req[r].pc = "saveClaim"
    /\ IF FoodListing[req[r].id].status # "available"
       THEN /\ UNCHANGED FoodClaim
            /\ Respond(r, 400)
       ELSE /\ FoodClaim' = Append(FoodClaim,
                   [foodListingId |-> req[r].id,
                    claimedBy |-> req[r].clerkUserId,
                    claimType |-> "reserved", status |-> "pending"])
            /\ Set(r, [req[r] EXCEPT !.pc = "updateFoodStatus",
                                     !.claim = Len(FoodClaim) + 1])
    /\ io' = <<>>
    /\ UNCHANGED <<profiles, aside, FoodListing, Notification, budget>>

\* await claim.save() of a new claim: claimType 'reserved', status 'pending'
ReserveSave(r) ==
    /\ req[r].op = "reserve" /\ req[r].pc = "saveClaim"
    /\ FoodClaim' = Append(FoodClaim,
           [foodListingId |-> req[r].id, claimedBy |-> req[r].clerkUserId,
            claimType |-> "reserved", status |-> "pending"])
    /\ Set(r, [req[r] EXCEPT !.pc = "updateFoodStatus",
                             !.claim = Len(FoodClaim) + 1])
    /\ io' = <<>>
    /\ UNCHANGED <<profiles, aside, FoodListing, Notification, budget>>

(* ------------------------- POST /api/food/claim/:id ------------------- *)
\* await FoodListing.findById; 404 when absent, 400 when already claimed;
\* await getUserByClerkId; 404 when null
Claim(r, clerkUserId, id) ==
    /\ Accept(r)
    /\ LET q == New("claim", clerkUserId, id, NoBody)
           listing == findById(id)
       IN  IF ~listing.found
           THEN Answer(r, q, 404)
           ELSE IF ClaimRejected(listing)
           THEN Answer(r, q, 400)
           ELSE IF getUserByClerkId(clerkUserId) = None
           THEN Answer(r, q, 404)
           ELSE Set(r, [q EXCEPT !.pc = "findClaim"])
    /\ io' = <<>>
    /\ UNCHANGED <<profiles, aside, stores>>

\* let claim = await FoodClaim.findOne({foodListingId, claimedBy}): any
\* matching document (the query states no order), null when there is none
ClaimFind(r) ==
    /\ req[r].op = "claim" /\ req[r].pc = "findClaim"
    /\ LET found == findOneClaim(req[r].id, req[r].clerkUserId)
       IN  \E i \in (IF found = {} THEN {0} ELSE found) :
               Set(r, [req[r] EXCEPT !.pc = "saveClaim", !.claim = i])
    /\ io' = <<>>
    /\ UNCHANGED <<profiles, aside, stores, budget>>

\* (a save that reads the listing again and gives up when it is claimed by
\* now)
ClaimSave_Rechecks(r) ==
    /\ req[r].op = "claim" /\ req[r].pc = "saveClaim"
    /\ IF FoodListing[req[r].id].status = "claimed"
       THEN /\ UNCHANGED FoodClaim
            /\ Respond(r, 400)
       ELSE IF req[r].claim # 0
       THEN /\ FoodClaim' = [FoodClaim EXCEPT
                                ![req[r].claim].claimType = "claimed",
                                ![req[r].claim].status = "picked-up"]
            /\ Set(r, [req[r] EXCEPT !.pc = "updateFoodStatus"])
       ELSE /\ FoodClaim' = Append(FoodClaim,
                [foodListingId |-> req[r].id,
                 claimedBy |-> req[r].clerkUserId,
                 claimType |-> "claimed", status |-> "picked-up"])
            /\ Set(r, [req[r] EXCEPT !.pc = "updateFoodStatus",
                                     !.claim = Len(FoodClaim) + 1])
    /\ io' = <<>>
    /\ UNCHANGED <<profiles, aside, FoodListing, Notification, budget>>

\* if (claim) { claimType = 'claimed'; status = 'picked-up'; save }
\* else       { new FoodClaim({... 'claimed', 'picked-up'}); save }
ClaimSave(r) ==
    /\ req[r].op = "claim" /\ req[r].pc = "saveClaim"
    /\ IF req[r].claim # 0
       THEN /\ FoodClaim' = [FoodClaim EXCEPT
                                ![req[r].claim].claimType = "claimed",
                                ![req[r].claim].status = "picked-up"]
            /\ Set(r, [req[r] EXCEPT !.pc = "updateFoodStatus"])
       ELSE /\ FoodClaim' = Append(FoodClaim,
                [foodListingId |-> req[r].id,
                 claimedBy |-> req[r].clerkUserId,
                 claimType |-> "claimed", status |-> "picked-up"])
            /\ Set(r, [req[r] EXCEPT !.pc = "updateFoodStatus",
                                     !.claim = Len(FoodClaim) + 1])
    /\ io' = <<>>
    /\ UNCHANGED <<profiles, aside, FoodListing, Notification, budget>>

(* ----------------------- DELETE /api/food/unclaim/:id ----------------- *)
\* await FoodClaim.findOne({foodListingId, claimedBy, status: {$in:
\* ['pending', 'confirmed']}}); 404 when null
Unclaim(r, clerkUserId, id) ==
    /\ Accept(r)
    /\ LET q == New("unclaim", clerkUserId, id, NoBody)
           found == findOneLiveClaim(id, clerkUserId)
       IN  \E i \in (IF found = {} THEN {0} ELSE found) :
               IF i = 0
               THEN Answer(r, q, 404)
               ELSE Set(r, [q EXCEPT !.pc = "saveClaim", !.claim = i])
    /\ io' = <<>>
    /\ UNCHANGED <<profiles, aside, stores>>

\* claim.status = 'cancelled'; await claim.save()
UnclaimSave(r) ==
    /\ req[r].op = "unclaim" /\ req[r].pc = "saveClaim"
    /\ FoodClaim' = [FoodClaim EXCEPT ![req[r].claim].status = "cancelled"]
    /\ Set(r, [req[r] EXCEPT !.pc = "updateFoodStatus"])
    /\ io' = <<>>
    /\ UNCHANGED <<profiles, aside, FoodListing, Notification, budget>>

(* ---------------------------- updateFoodStatus ------------------------ *)
\* (an updateFoodStatus that writes the status and tells no client)
UpdateFoodStatus_Silent(r) ==
    /\ req[r].op \in {"reserve", "claim", "unclaim"}
    /\ req[r].pc = "updateFoodStatus"
    /\ LET id == req[r].id
       IN  /\ FoodListing' =
                 [FoodListing EXCEPT ![id].status = NewStatus(req[r].op)]
           /\ io' = <<>>
           /\ IF NotifiesDonor(req[r].clerkUserId, FoodListing[id].donorId)
              THEN Set(r, [req[r] EXCEPT !.pc = "createNotification",
                              !.userId = FoodListing[id].donorId])
              ELSE Respond(r, 200)
    /\ UNCHANGED <<profiles, aside, FoodClaim, Notification, budget>>

\* food = await FoodListing.findByIdAndUpdate(foodId, {status: newStatus});
\* if (food) { io.emit('food-status-updated'); if (clerkUserId &&
\* clerkUserId !== food.donorId) await createNotification(food.donorId...) }
\* Without a notification the handler answers 200 in the same step.
UpdateFoodStatus(r) ==
    /\ req[r].op \in {"reserve", "claim", "unclaim"}
    /\ req[r].pc = "updateFoodStatus"
    /\ LET id == req[r].id
           newStatus == NewStatus(req[r].op)
       IN  IF id \in 1..Len(FoodListing)
           THEN /\ FoodListing' = [FoodListing EXCEPT ![id].status = newStatus]
                /\ io' = <<Emit("all", None, "food-status-updated", id,
                                newStatus)>>
                /\ LET food == FoodListing'[id]
                   IN  IF NotifiesDonor(req[r].clerkUserId, food.donorId)
                       THEN Set(r, [req[r] EXCEPT !.pc = "createNotification",
                                                  !.userId = food.donorId])
                       ELSE Respond(r, 200)
           ELSE /\ UNCHANGED FoodListing
                /\ io' = <<>>
                /\ Respond(r, 200)
    /\ UNCHANGED <<profiles, aside, FoodClaim, Notification, budget>>

\* (an updateFoodStatus whose catch does not throw the error on: the route
\* answers as if the status had been written)
UpdateFoodStatusFails_Swallowed(r) ==
    /\ req[r].op \in {"reserve", "claim", "unclaim"}
    /\ req[r].pc = "updateFoodStatus"
    /\ io' = <<>>
    /\ Respond(r, 200)
    /\ UNCHANGED <<profiles, aside, stores, budget>>

\* updateFoodStatus when findByIdAndUpdate rejects: its catch logs and
\* throws the error on, the catch of the route answers 500; nothing was
\* written or emitted, and the claim record saved before stays
UpdateFoodStatusFails(r) ==
    /\ req[r].op \in {"reserve", "claim", "unclaim"}
    /\ req[r].pc = "updateFoodStatus"
    /\ io' = <<>>
    /\ Respond(r, 500)
    /\ UNCHANGED <<profiles, aside, stores, budget>>

\* the type argument of the createNotification call of each handler
NotificationType(op) == IF op = "chat" THEN "message" ELSE "food-claimed"

\* the status of the response that follows the createNotification call
AfterNotification(op) == IF op = "chat" THEN 201 ELSE 200

\* (a createNotification that emits to every client)
CreateNotification_Broadcasts(r) ==
    /\ req[r].pc = "createNotification"
    /\ Notification' = Append(Notification,
           [userId |-> req[r].userId, type |-> NotificationType(req[r].op),
            relatedId |-> req[r].id])
    /\ io' = <<Emit("all", None, "new-notification", Len(Notification) + 1,
                    None)>>
    /\ Respond(r, AfterNotification(req[r].op))
    /\ UNCHANGED <<profiles, aside, FoodListing, FoodClaim, budget>>

\* createNotification(userId, ..., type, foodId):
\* await notification.save(); io.to(`user_${userId}`).emit(...); then the
\* handler answers (200, or 201 for a chat message)
CreateNotification(r) ==
    /\ req[r].pc = "createNotification"
    /\ LET userId == req[r].userId
       IN  /\ Notification' = Append(Notification,
                  [userId |-> userId, type |-> NotificationType(req[r].op),
                   relatedId |-> req[r].id])
           /\ io' = <<Emit("user", userId, "new-notification",
                           Len(Notification) + 1, None)>>
    /\ Respond(r, AfterNotification(req[r].op))
    /\ UNCHANGED <<profiles, aside, FoodListing, FoodClaim, budget>>

\* (a createNotification without its catch: the error reaches the route's
\* own catch, which answers 500)
CreateNotificationFails_Propagates(r) ==
    /\ req[r].pc = "createNotification"
    /\ io' = <<>>
    /\ Respond(r, 500)
    /\ UNCHANGED <<profiles, aside, stores, budget>>

\* createNotification when notification.save() rejects: the catch logs the
\* error and returns; nothing was stored, nothing is emitted, nothing is
\* tried again, and the caller goes on to its response
CreateNotificationFails(r) ==
    /\ req[r].pc = "createNotification"
    /\ io' = <<>>
    /\ Respond(r, AfterNotification(req[r].op))
    /\ UNCHANGED <<profiles, aside, stores, budget>>

\* createNotification when the save succeeds and the emit throws: the same
\* catch; the stored document stays
CreateNotificationUnpublished(r) ==
    /\ req[r].pc = "createNotification"
    /\ Notification' = Append(Notification,
           [userId |-> req[r].userId, type |-> NotificationType(req[r].op),
            relatedId |-> req[r].id])
    /\ io' = <<>>
    /\ Respond(r, AfterNotification(req[r].op))
    /\ UNCHANGED <<profiles, aside, FoodListing, FoodClaim, budget>>

(* --------------------------- POST /api/chat/:foodId ------------------- *)
\* await getUserByClerkId; 404 when null; await FoodListing.findById; 404
\* when absent.  The handler keeps foodListing.donorId of the document it
\* read: the sender is 'donor' when it equals clerkUserId, else 'recipient'.
SendChat(r, clerkUserId, id) ==
    /\ Accept(r)
    /\ LET q == New("chat", clerkUserId, id, NoBody)
           foodListing == findById(id)
       IN  IF getUserByClerkId(clerkUserId) = None
           THEN Answer(r, q, 404)
           ELSE IF ~foodListing.found
           THEN Answer(r, q, 404)
           ELSE Set(r, [q EXCEPT !.pc = "saveMessage",
                                 !.donorId = foodListing.donorId])
    /\ io' = <<>>
    /\ UNCHANGED <<profiles, stores, aside>>

\* senderType of the handler in slot r
SenderType(r) ==
    IF req[r].donorId = req[r].clerkUserId THEN "donor" ELSE "recipient"

\* await chatMessage.save(); io.to(`food_${foodId}`).emit('new-message');
\* a recipient's message goes on to notify foodListing.donorId (which is not
\* the sender); a donor's message goes on to look the claimant up
SendSave(r) ==
    /\ req[r].op = "chat" /\ req[r].pc = "saveMessage"
    /\ ChatMessage' = Append(ChatMessage,
           [foodListingId |-> req[r].id, senderId |-> req[r].clerkUserId,
            senderType |-> SenderType(r), isRead |-> FALSE])
    /\ io' = <<Emit("food", None, "new-message", req[r].id, None)>>
    /\ IF SenderType(r) = "donor"
       THEN Set(r, [req[r] EXCEPT !.pc = "findRecipient"])
       ELSE Set(r, [req[r] EXCEPT !.pc = "createNotification",
                                  !.userId = req[r].donorId])
    /\ UNCHANGED <<profiles, stores, result, realtime, budget>>

\* (await FoodClaim.findOne({foodListingId: foodId}))?.claimedBy: the
\* claimant of any claim record of the listing, whatever its status;
\* if (recipientId && recipientId !== clerkUserId) createNotification;
\* else 201
SendFindRecipient(r) ==
    /\ req[r].op = "chat" /\ req[r].pc = "findRecipient"
    /\ LET found == {i \in 1..Len(FoodClaim) :
                        FoodClaim[i].foodListingId = req[r].id}
       IN  \E i \in (IF found = {} THEN {0} ELSE found) :
               IF i = 0 \/ FoodClaim[IF i = 0 THEN 1 ELSE i].claimedBy
                              = req[r].clerkUserId
               THEN Respond(r, 201)
               ELSE Set(r, [req[r] EXCEPT !.pc = "createNotification",
                               !.userId = FoodClaim[i].claimedBy])
    /\ io' = <<>>
    /\ UNCHANGED <<profiles, stores, aside, budget>>

(* ------------------------- PUT /api/chat/:foodId/read ----------------- *)
\* (an updateMany without the senderId condition)
MarkedRead_AllSenders(foodId, clerkUserId) ==
    [i \in 1..Len(ChatMessage) |->
        IF ChatMessage[i].foodListingId = foodId
        THEN [ChatMessage[i] EXCEPT !.isRead = TRUE]
        ELSE ChatMessage[i]]

\* ChatMessage.updateMany({foodListingId, senderId: {$ne: clerkUserId},
\* isRead: false}, {isRead: true})
MarkedRead(foodId, clerkUserId) ==
    [i \in 1..Len(ChatMessage) |->
        IF /\ ChatMessage[i].foodListingId = foodId
           /\ ChatMessage[i].senderId # clerkUserId
           /\ ~ChatMessage[i].isRead
        THEN [ChatMessage[i] EXCEPT !.isRead = TRUE]
        ELSE ChatMessage[i]]

\* await ChatMessage.updateMany(...); 200: the actor is not looked up and
\* the listing is not read
MarkRead(r, clerkUserId, id) ==
    /\ Accept(r)
    /\ ChatMessage' = MarkedRead(id, clerkUserId)
    /\ Answer(r, New("read", clerkUserId, id, NoBody), 200)
    /\ io' = <<>>
    /\ UNCHANGED <<profiles, stores, result, realtime>>

(* ------------------------------ listing queries ----------------------- *)
\* (a find that does not apply the isActive condition)
Find_IncludingInactive(donorId, activeOnly, status) ==
    {id \in 1..Len(FoodListing) :
        /\ status # None => FoodListing[id].status = status
        /\ donorId # None => FoodListing[id].donorId = donorId}

\* FoodListing.find(filter): the filter carries isActive: true when
\* activeOnly, a status when one is sent, a donorId when one is given
Find(donorId, activeOnly, status) ==
    {id \in 1..Len(FoodListing) :
        /\ activeOnly => FoodListing[id].isActive
        /\ status # None => FoodListing[id].status = status
        /\ donorId # None => FoodListing[id].donorId = donorId}

\* .sort({createdAt: -1}): the listing inserted last comes first
RECURSIVE NewestFirst(_)
NewestFirst(S) ==
    IF S = {} THEN <<>>
    ELSE LET i == CHOOSE i \in S : \A j \in S : j <= i
         IN  <<i>> \o NewestFirst(S \ {i})

\* a find without a sort: insertion order
RECURSIVE OldestFirst(_)
OldestFirst(S) ==
    IF S = {} THEN <<>>
    ELSE LET i == CHOOSE i \in S : \A j \in S : i <= j
         IN  <<i>> \o OldestFirst(S \ {i})

\* .limit(limit).skip((page - 1) * limit)
Page(s, limit, page) ==
    LET skip == (page - 1) * limit
        last == IF skip + limit < Len(s) THEN skip + limit ELSE Len(s)
    IN  SubSeq(s, skip + 1, last)

\* a read answered in one step: the response carries these listings
Query(r, op, clerkUserId, id, code, listings) ==
    /\ Accept(r)
    /\ result' = listings
    /\ Answer(r, New(op, clerkUserId, id, NoBody), code)
    /\ io' = <<>>
    /\ UNCHANGED <<profiles, stores, ChatMessage, realtime>>

\* GET /api/food/listings: filter {isActive: true, status?}, default sort
GetListings(r, status, limit, page) ==
    Query(r, "listings", None, 0, 200,
          Page(NewestFirst(Find(None, TRUE, status)), limit, page))

\* GET /api/food/listings/:id: findById, 404 when absent
GetListing(r, id) ==
    IF findById(id).found
    THEN Query(r, "listing", None, id, 200, <<id>>)
    ELSE Query(r, "listing", None, id, 404, <<>>)

\* GET /api/food/my-donations/:clerkUserId: filter {donorId, isActive: true,
\* status?}
MyDonations(r, clerkUserId, status, limit, page) ==
    Query(r, "my-donations", clerkUserId, 0, 200,
          Page(NewestFirst(Find(clerkUserId, TRUE, status)), limit, page))

\* POST /api/food/nearby: 400 without a center; else the listings with
\* isActive: true, status: 'available' inside the circle (within: the
\* listings whose coordinates lie inside it)
Nearby(r, center, within, limit) ==
    IF ~center
    THEN Query(r, "nearby", None, 0, 400, <<>>)
    ELSE Query(r, "nearby", None, 0, 200,
               Page(NewestFirst(Find(None, TRUE, "available") \cap within),
                    limit, 1))

\* router.get('/'): FoodListing.find({isActive: true})
Donations(r) ==
    Query(r, "donations", None, 0, 200, OldestFirst(Find(None, TRUE, None)))

\* GET /api/admin/food/listings: filter {status?}, no isActive condition
AdminListings(r, status, limit, page) ==
    Query(r, "admin", None, 0, 200,
          Page(NewestFirst(Find(None, FALSE, status)), limit, page))

(* ------------------------------ router.post('/submit') ---------------- *)
\* Individual.findOne(...) || NGO.findOne(...) || SocialWorker.findOne(...):
\* user.userType of the first profile found, the stored value (None when no
\* collection has the identity)
findOneProfile(clerkUserId) ==
    LET found(C) == {p \in C : p.clerkUserId = clerkUserId}
    IN  IF found(Individual) # {}
        THEN (CHOOSE p \in found(Individual) : TRUE).userType
        ELSE IF found(NGO) # {}
        THEN (CHOOSE p \in found(NGO) : TRUE).userType
        ELSE IF found(SocialWorker) # {}
        THEN (CHOOSE p \in found(SocialWorker) : TRUE).userType
        ELSE None

\* the lookup above; 404 when no profile is found
Submit(r, clerkUserId) ==
    /\ Accept(r)
    /\ Len(FoodListing) + PendingCreates < Cardinality(ListingIds)
    /\ LET q == New("submit", clerkUserId, 0, NoBody)
           userType == findOneProfile(clerkUserId)
       IN  IF userType = None
           THEN Answer(r, q, 404)
           ELSE Set(r, [q EXCEPT !.pc = "saveDonation",
                                 !.userType = userType])
    /\ io' = <<>>
    /\ UNCHANGED <<profiles, stores, aside>>

\* new FoodListing({..., donorId: clerkUserId, donorType: user.userType ||
\* 'individual', status: 'available', ...});
\* await donation.save(); 201.  Nothing is emitted.
SubmitSave(r) ==
    /\ req[r].op = "submit" /\ req[r].pc = "saveDonation"
    /\ LET id == Len(FoodListing) + 1
       IN  /\ FoodListing' = Append(FoodListing,
                  [donorId |-> req[r].clerkUserId,
                   donorType |-> req[r].userType,
                   status |-> "available", isActive |-> TRUE])
           /\ Answer(r, [req[r] EXCEPT !.id = id], 201)
    /\ io' = <<>>
    /\ UNCHANGED <<profiles, aside, FoodClaim, Notification, budget>>

(* ------------------------------ profiles ------------------------------ *)
\* GET /api/user/:clerkUserId: getUserByClerkId; 404 when null, else the
\* profile with the userType getUserByClerkId gave it
GetUser(r, clerkUserId) ==
    LET user == getUserByClerkId(clerkUserId)
    IN  IF user = None
        THEN Query(r, "user", clerkUserId, 0, 404, <<>>)
        ELSE Query(r, "user", clerkUserId, 0, 200, <<user>>)

\* POST /api/register/<kind>
RegisterOp(kind) ==
    CASE kind = "individual" -> "register/individual"
      [] kind = "ngo" -> "register/ngo"
      [] kind = "social-worker" -> "register/social-worker"

\* the collection a registration handler inserts into
RegisterKind(op) ==
    CASE op = "register/individual" -> "individual"
      [] op = "register/ngo" -> "ngo"
      [] op = "register/social-worker" -> "social-worker"

\* const existingUser = await getUserByClerkId(clerkUserId); 409 when one
\* exists; else new Individual({clerkUserId, ...individualData}) (or NGO, or
\* SocialWorker): the document holds the userType of the body, or the
\* schema default of its collection when the body has none
Register(r, kind, clerkUserId, userType) ==
    /\ Accept(r)
    /\ LET q == New(RegisterOp(kind), clerkUserId, 0, NoBody)
       IN  IF getUserByClerkId(clerkUserId) # None
           THEN Answer(r, q, 409)
           ELSE Set(r, [q EXCEPT !.pc = "saveProfile",
                           !.userType = IF userType = None THEN kind
                                        ELSE userType])
    /\ io' = <<>>
    /\ UNCHANGED <<profiles, stores, aside>>

\* the collection C after save() of the document of the handler in slot r,
\* when the handler registers into the collection kind
Saved(C, kind, r) ==
    IF RegisterKind(req[r].op) = kind
    THEN C \cup {[clerkUserId |-> req[r].clerkUserId,
                  userType |-> req[r].userType]}
    ELSE C

\* await individual.save(): the unique index on clerkUserId of that one
\* collection rejects a second document of the identity (error.code 11000,
\* answered 409); else the document is inserted, 201
RegisterSave(r) ==
    /\ req[r].pc = "saveProfile"
    /\ LET kind == RegisterKind(req[r].op)
           C == CASE kind = "individual" -> Individual
                  [] kind = "ngo" -> NGO
                  [] kind = "social-worker" -> SocialWorker
       IN  IF \E p \in C : p.clerkUserId = req[r].clerkUserId
           THEN /\ UNCHANGED profiles
                /\ Respond(r, 409)
           ELSE /\ Individual' = Saved(Individual, "individual", r)
                /\ NGO' = Saved(NGO, "ngo", r)
                /\ SocialWorker' = Saved(SocialWorker, "social-worker", r)
                /\ Respond(r, 201)
    /\ io' = <<>>
    /\ UNCHANGED <<stores, aside, budget>>

(* ------------------------------ io.on('connection') ------------------- *)
\* the room names the handlers build: `user_${clerkUserId}`, `food_${foodId}`
UserRoom(clerkUserId) == [room |-> "user", user |-> clerkUserId, id |-> 0]
FoodRoom(foodId) == [room |-> "food", user |-> None, id |-> foodId]

\* the connected sockets that have joined a room
Members(room) ==
    {s \in SocketIds : sockets[s].connected /\ room \in sockets[s].rooms}

\* (io.to(room): every member of the room, the sender too)
To_IncludingSender(socket, room) == Members(room)

\* socket.to(room): the members of the room except the socket itself
To(socket, room) == Members(room) \ {socket}

\* the sockets an event emitted through io reaches: io.emit reaches every
\* connected socket, io.to(room) the members of the room
Receivers(e) ==
    CASE e.room = "all" -> {s \in SocketIds : sockets[s].connected}
      [] e.room = "user" -> Members(UserRoom(e.user))
      [] e.room = "food" -> Members(FoodRoom(e.id))

\* the server handles one more socket event
Handled(socket, event, user, id, to) ==
    /\ signal.n < MaxSignals
    /\ signal' = [n |-> signal.n + 1, socket |-> socket, event |-> event,
                  user |-> user, id |-> id, to |-> to]
    /\ io' = <<>>
    /\ res' = NoRes
    /\ UNCHANGED <<profiles, stores, ChatMessage, result, req, budget>>

\* io.on('connection', (socket) => ...): a client opens a socket, which is
\* in no room of the handlers
Connection(socket) ==
    /\ ~sockets[socket].connected
    /\ sockets' = [sockets EXCEPT ![socket] =
                       [connected |-> TRUE, rooms |-> {}]]
    /\ Handled(socket, "connection", None, 0, {})

\* (a join that lets a socket into a user room only while the room is empty)
JoinUserRoom_FirstOnly(socket, clerkUserId) ==
    /\ sockets[socket].connected
    /\ sockets' = IF Members(UserRoom(clerkUserId)) = {}
                  THEN [sockets EXCEPT ![socket].rooms =
                           @ \cup {UserRoom(clerkUserId)}]
                  ELSE sockets
    /\ Handled(socket, "join-user-room", clerkUserId, 0, {})

\* socket.on('join-user-room', (clerkUserId) =>
\*     socket.join(`user_${clerkUserId}`)): nothing is checked
JoinUserRoom(socket, clerkUserId) ==
    /\ sockets[socket].connected
    /\ sockets' = [sockets EXCEPT ![socket].rooms =
                       @ \cup {UserRoom(clerkUserId)}]
    /\ Handled(socket, "join-user-room", clerkUserId, 0, {})

\* socket.on('join-food-room', (foodId) => socket.join(`food_${foodId}`))
JoinFoodRoom(socket, foodId) ==
    /\ sockets[socket].connected
    /\ sockets' = [sockets EXCEPT ![socket].rooms =
                       @ \cup {FoodRoom(foodId)}]
    /\ Handled(socket, "join-food-room", None, foodId, {})

\* socket.on('typing', (data) =>
\*     socket.to(`food_${data.foodId}`).emit('user-typing', ...))
Typing(socket, foodId) ==
    /\ sockets[socket].connected
    /\ Handled(socket, "typing", None, foodId, To(socket, FoodRoom(foodId)))
    /\ UNCHANGED sockets

\* socket.on('share-location', (data) =>
\*     socket.to(`food_${data.foodId}`).emit('location-shared', ...))
ShareLocation(socket, foodId) ==
    /\ sockets[socket].connected
    /\ Handled(socket, "share-location", None, foodId,
               To(socket, FoodRoom(foodId)))
    /\ UNCHANGED sockets

\* socket.on('disconnect', ...): the handler logs; the socket has left its
\* rooms
Disconnect(socket) ==
    /\ sockets[socket].connected
    /\ sockets' = [sockets EXCEPT ![socket] =
                       [connected |-> FALSE, rooms |-> {}]]
    /\ Handled(socket, "disconnect", None, 0, {})

(* ---------------------------- specification --------------------------- *)
Next ==
    \/ \E r \in Slots, u \in UserIds, b \in CreateBodies : Create(r, u, b)
    \/ \E r \in Slots : CreateSave(r)
    \/ \E r \in Slots, u \in UserIds, id \in ListingIds, b \in UpdateBodies :
          Update(r, u, id, b)
    \/ \E r \in Slots : UpdateWrite(r)
    \/ \E r \in Slots, u \in UserIds, id \in ListingIds : Delete(r, u, id)
    \/ \E r \in Slots : DeleteWrite(r)
    \/ \E r \in Slots, u \in UserIds, id \in ListingIds : Reserve(r, u, id)
    \/ \E r \in Slots : ReserveSave(r)
    \/ \E r \in Slots, u \in UserIds, id \in ListingIds : Claim(r, u, id)
    \/ \E r \in Slots : ClaimFind(r)
    \/ \E r \in Slots : ClaimSave(r)
    \/ \E r \in Slots, u \in UserIds, id \in ListingIds : Unclaim(r, u, id)
    \/ \E r \in Slots : UnclaimSave(r)
    \/ \E r \in Slots : UpdateFoodStatus(r)
    \/ \E r \in Slots : CreateNotification(r)

Spec == Init /\ [][Next]_vars

\* The same handlers when no two requests overlap: a request is accepted
\* only when no handler is in flight.
InitSerial == Stores0 /\ budget = MaxSerialRequests

NoneInFlight == \A r \in Slots : req[r].pc = "idle"

NextSerial ==
    \/ \E r \in Slots, u \in UserIds, b \in CreateBodies :
          NoneInFlight /\ Create(r, u, b)
    \/ \E r \in Slots : CreateSave(r)
    \/ \E r \in Slots, u \in UserIds, id \in ListingIds, b \in UpdateBodies :
          NoneInFlight /\ Update(r, u, id, b)
    \/ \E r \in Slots : UpdateWrite(r)
    \/ \E r \in Slots, u \in UserIds, id \in ListingIds :
          NoneInFlight /\ Delete(r, u, id)
    \/ \E r \in Slots : DeleteWrite(r)
    \/ \E r \in Slots, u \in UserIds, id \in ListingIds :
          NoneInFlight /\ Reserve(r, u, id)
    \/ \E r \in Slots : ReserveSave(r)
    \/ \E r \in Slots, u \in UserIds, id \in ListingIds :
          NoneInFlight /\ Claim(r, u, id)
    \/ \E r \in Slots : ClaimFind(r)
    \/ \E r \in Slots : ClaimSave(r)
    \/ \E r \in Slots, u \in UserIds, id \in ListingIds :
          NoneInFlight /\ Unclaim(r, u, id)
    \/ \E r \in Slots : UnclaimSave(r)
    \/ \E r \in Slots : UpdateFoodStatus(r)
    \/ \E r \in Slots : CreateNotification(r)

SpecSerial == InitSerial /\ [][NextSerial]_vars

\* The same handlers when each runs from its request to its response with
\* no step of another handler in between, and no update body carries a
\* status.
InitAtomic == Stores0 /\ budget = MaxAtomicRequests

NextAtomic ==
    \/ \E r \in Slots, u \in UserIds, b \in CreateBodies :
          NoneInFlight /\ Create(r, u, b)
    \/ \E r \in Slots : CreateSave(r)
    \/ \E r \in Slots, u \in UserIds, id \in ListingIds, b \in UpdateBodies :
          NoneInFlight /\ b.status = None /\ Update(r, u, id, b)
    \/ \E r \in Slots : UpdateWrite(r)
    \/ \E r \in Slots, u \in UserIds, id \in ListingIds :
          NoneInFlight /\ Delete(r, u, id)
    \/ \E r \in Slots : DeleteWrite(r)
    \/ \E r \in Slots, u \in UserIds, id \in ListingIds :
          NoneInFlight /\ Reserve(r, u, id)
    \/ \E r \in Slots : ReserveSave(r)
    \/ \E r \in Slots, u \in UserIds, id \in ListingIds :
          NoneInFlight /\ Claim(r, u, id)
    \/ \E r \in Slots : ClaimFind(r)
    \/ \E r \in Slots : ClaimSave(r)
    \/ \E r \in Slots, u \in UserIds, id \in ListingIds :
          NoneInFlight /\ Unclaim(r, u, id)
    \/ \E r \in Slots : UnclaimSave(r)
    \/ \E r \in Slots : UpdateFoodStatus(r)
    \/ \E r \in Slots : CreateNotification(r)

SpecAtomic == InitAtomic /\ [][NextAtomic]_vars

\* The server with its chat routes.
InitChat == Stores0 /\ budget = MaxChatRequests

NextChat ==
    \/ \E r \in Slots, u \in UserIds, b \in CreateBodies : Create(r, u, b)
    \/ \E r \in Slots : CreateSave(r)
    \/ \E r \in Slots, u \in UserIds, id \in ListingIds, b \in UpdateBodies :
          Update(r, u, id, b)
    \/ \E r \in Slots : UpdateWrite(r)
    \/ \E r \in Slots, u \in UserIds, id \in ListingIds : Delete(r, u, id)
    \/ \E r \in Slots : DeleteWrite(r)
    \/ \E r \in Slots, u \in UserIds, id \in ListingIds : Reserve(r, u, id)
    \/ \E r \in Slots : ReserveSave(r)
    \/ \E r \in Slots, u \in UserIds, id \in ListingIds : Claim(r, u, id)
    \/ \E r \in Slots : ClaimFind(r)
    \/ \E r \in Slots : ClaimSave(r)
    \/ \E r \in Slots, u \in UserIds, id \in ListingIds : Unclaim(r, u, id)
    \/ \E r \in Slots : UnclaimSave(r)
    \/ \E r \in Slots : UpdateFoodStatus(r)
    \/ \E r \in Slots : CreateNotification(r)
    \/ \E r \in Slots, u \in UserIds, id \in ListingIds : SendChat(r, u, id)
    \/ \E r \in Slots : SendSave(r)
    \/ \E r \in Slots : SendFindRecipient(r)
    \/ \E r \in Slots, u \in UserIds, id \in ListingIds : MarkRead(r, u, id)

SpecChat == InitChat /\ [][NextChat]_vars

\* The server with its chat routes when the status write of
\* updateFoodStatus may fail, and the notification store or the socket layer
\* inside createNotification.
InitFaults == Stores0 /\ budget = MaxFaultRequests

NextFaults ==
    \/ \E r \in Slots, u \in UserIds, b \in CreateBodies : Create(r, u, b)
    \/ \E r \in Slots : CreateSave(r)
    \/ \E r \in Slots, u \in UserIds, id \in ListingIds : Reserve(r, u, id)
    \/ \E r \in Slots : ReserveSave(r)
    \/ \E r \in Slots, u \in UserIds, id \in ListingIds : Claim(r, u, id)
    \/ \E r \in Slots : ClaimFind(r)
    \/ \E r \in Slots : ClaimSave(r)
    \/ \E r \in Slots, u \in UserIds, id \in ListingIds : Unclaim(r, u, id)
    \/ \E r \in Slots : UnclaimSave(r)
    \/ \E r \in Slots : UpdateFoodStatus(r)
    \/ \E r \in Slots : CreateNotification(r)
    \/ \E r \in Slots : UpdateFoodStatusFails(r)
    \/ \E r \in Slots : CreateNotificationFails(r)
    \/ \E r \in Slots : CreateNotificationUnpublished(r)
    \/ \E r \in Slots, u \in UserIds, id \in ListingIds : SendChat(r, u, id)
    \/ \E r \in Slots : SendSave(r)
    \/ \E r \in Slots : SendFindRecipient(r)

SpecFaults == InitFaults /\ [][NextFaults]_vars

\* The chat routes of a server on which "a" has created listing 1 and "b"
\* listing 2.
InitMessages ==
    /\ Individual = {[clerkUserId |-> "a", userType |-> "individual"]}
    /\ NGO = {[clerkUserId |-> "b", userType |-> "ngo"]}
    /\ SocialWorker = {}
    /\ FoodListing = <<[donorId |-> "a", donorType |-> "individual",
                        status |-> "available", isActive |-> TRUE],
                       [donorId |-> "b", donorType |-> "ngo",
                        status |-> "available", isActive |-> TRUE]>>
    /\ FoodClaim = <<>>
    /\ Notification = <<>>
    /\ ChatMessage = <<>>
    /\ result = <<>>
    /\ io = <<>>
    /\ req = [r \in Slots |-> Idle]
    /\ res = NoRes
    /\ sockets = [s \in SocketIds |-> [connected |-> FALSE, rooms |-> {}]]
    /\ signal = NoSignal
    /\ budget = MaxMessageRequests

NextMessages ==
    \/ \E r \in Slots, u \in UserIds, id \in ListingIds : SendChat(r, u, id)
    \/ \E r \in Slots : SendSave(r)
    \/ \E r \in Slots : SendFindRecipient(r)
    \/ \E r \in Slots : CreateNotification(r)
    \/ \E r \in Slots, u \in UserIds, id \in ListingIds : MarkRead(r, u, id)

SpecMessages == InitMessages /\ [][NextMessages]_vars

\* The socket handlers alone: no request is accepted.
InitSignals == Stores0 /\ budget = 0

NextSignals ==
    \/ \E s \in SocketIds : Connection(s)
    \/ \E s \in SocketIds, u \in UserIds : JoinUserRoom(s, u)
    \/ \E s \in SocketIds, id \in ListingIds : JoinFoodRoom(s, id)
    \/ \E s \in SocketIds, id \in ListingIds : Typing(s, id)
    \/ \E s \in SocketIds, id \in ListingIds : ShareLocation(s, id)
    \/ \E s \in SocketIds : Disconnect(s)

SpecSignals == InitSignals /\ [][NextSignals]_vars

\* The socket handlers next to the chat send route, on a server on which
\* "a" has created listing 1 and "b" listing 2 and three clients have
\* opened their sockets.
InitRealtime ==
    /\ Individual = {[clerkUserId |-> "a", userType |-> "individual"]}
    /\ NGO = {[clerkUserId |-> "b", userType |-> "ngo"]}
    /\ SocialWorker = {}
    /\ FoodListing = <<[donorId |-> "a", donorType |-> "individual",
                        status |-> "available", isActive |-> TRUE],
                       [donorId |-> "b", donorType |-> "ngo",
                        status |-> "available", isActive |-> TRUE]>>
    /\ FoodClaim = <<>>
    /\ Notification = <<>>
    /\ ChatMessage = <<>>
    /\ result = <<>>
    /\ io = <<>>
    /\ req = [r \in Slots |-> Idle]
    /\ res = NoRes
    /\ budget = MaxRealtimeRequests
    /\ sockets = [s \in SocketIds |-> [connected |-> TRUE, rooms |-> {}]]
    /\ signal = NoSignal

NextRealtime ==
    \/ \E s \in SocketIds : signal.n < MaxJoins /\ Connection(s)
    \/ \E s \in SocketIds, u \in UserIds :
          signal.n < MaxJoins /\ JoinUserRoom(s, u)
    \/ \E s \in SocketIds : signal.n < MaxJoins /\ Disconnect(s)
    \/ \E r \in Slots, u \in UserIds, id \in ListingIds : SendChat(r, u, id)
    \/ \E r \in Slots : SendSave(r)
    \/ \E r \in Slots : SendFindRecipient(r)
    \/ \E r \in Slots : CreateNotification(r)

SpecRealtime == InitRealtime /\ [][NextRealtime]_vars

\* The registration routes, the profile route and the two routes that
\* stamp a listing with its donor's role, on a server without profiles.
InitProfiles ==
    /\ Individual = {}
    /\ NGO = {}
    /\ SocialWorker = {}
    /\ FoodListing = <<>>
    /\ FoodClaim = <<>>
    /\ Notification = <<>>
    /\ ChatMessage = <<>>
    /\ result = <<>>
    /\ io = <<>>
    /\ req = [r \in Slots |-> Idle]
    /\ res = NoRes
    /\ budget = MaxProfileRequests
    /\ sockets = [s \in SocketIds |-> [connected |-> FALSE, rooms |-> {}]]
    /\ signal = NoSignal

NextProfiles ==
    \/ \E r \in Slots, k \in Kinds, u \in ProfileIds, t \in BodyUserTypes :
          Register(r, k, u, t)
    \/ \E r \in Slots : RegisterSave(r)
    \/ \E r \in Slots, u \in ProfileIds : GetUser(r, u)
    \/ \E r \in Slots, u \in ProfileIds : Create(r, u, NoBody)
    \/ \E r \in Slots : CreateSave(r)
    \/ \E r \in Slots, u \in ProfileIds : Submit(r, u)
    \/ \E r \in Slots : SubmitSave(r)

SpecProfiles == InitProfiles /\ [][NextProfiles]_vars

\* The routes that insert, edit, soft-delete and list listings.
InitListings == Stores0 /\ budget = MaxListingRequests

NextListings ==
    \/ \E r \in Slots, u \in UserIds, b \in CreateBodies : Create(r, u, b)
    \/ \E r \in Slots : CreateSave(r)
    \/ \E r \in Slots, u \in UserIds : Submit(r, u)
    \/ \E r \in Slots : SubmitSave(r)
    \/ \E r \in Slots, u \in UserIds, id \in ListingIds, b \in UpdateBodies :
          Update(r, u, id, b)
    \/ \E r \in Slots : UpdateWrite(r)
    \/ \E r \in Slots, u \in UserIds, id \in ListingIds : Delete(r, u, id)
    \/ \E r \in Slots : DeleteWrite(r)
    \/ \E r \in Slots, s \in StatusFilters, l \in Limits, p \in Pages :
          GetListings(r, s, l, p)
    \/ \E r \in Slots, id \in ListingIds : GetListing(r, id)
    \/ \E r \in Slots, u \in UserIds, s \in StatusFilters, l \in Limits,
          p \in Pages : MyDonations(r, u, s, l, p)
    \/ \E r \in Slots, c \in BOOLEAN, w \in SUBSET ListingIds, l \in Limits :
          Nearby(r, c, w, l)
    \/ \E r \in Slots : Donations(r)
    \/ \E r \in Slots, s \in StatusFilters, l \in Limits, p \in Pages :
          AdminListings(r, s, l, p)

SpecListings == InitListings /\ [][NextListings]_vars

(* ------------------------------ properties ---------------------------- *)
\* The vocabulary of the properties, stated on the stores themselves.
ListingExists(id) == id \in 1..Len(FoodListing)

Resolves(u) == \E p \in Individual \cup NGO \cup SocialWorker : p.clerkUserId = u

\* the claim records of the pair (listing id, claimant u), and the live ones
Records(id, u) ==
    {i \in 1..Len(FoodClaim) : /\ FoodClaim[i].foodListingId = id
                               /\ FoodClaim[i].claimedBy = u}

LiveRecords(id, u) ==
    {i \in Records(id, u) : FoodClaim[i].status \in {"pending", "confirmed"}}

\* this step accepts the request op of actor u on listing id: it is answered
\* at once or a handler for it is now in flight
Accepted(op, u, id) ==
    /\ budget' = budget - 1
    /\ \/ /\ res'.code # 0
          /\ res'.op = op /\ res'.clerkUserId = u /\ res'.id = id
          /\ req' = req
       \/ /\ res'.code = 0
          /\ \E r \in Slots : /\ req[r].pc = "idle" /\ req'[r].pc # "idle"
                              /\ req'[r].op = op
                              /\ req'[r].clerkUserId = u /\ req'[r].id = id

\* this step is a step of the handler in slot r
Steps(r) == req[r].pc # "idle" /\ req'[r] # req[r]

\* C1: a reserve request on an existing listing whose status is not
\* 'available' is answered 400 in the step that reads the listing; that step
\* writes no claim record, no listing and no notification and emits nothing,
\* and no handler stays in flight for it.
C1_ReserveUnavailableRejected ==
    [][\A u \in UserIds, id \in ListingIds :
          (/\ Accepted("reserve", u, id)
           /\ ListingExists(id)
           /\ FoodListing[id].status # "available")
          => (/\ res'.code = 400
              /\ req' = req
              /\ UNCHANGED stores
              /\ io' = <<>>)]_vars

\* C1 witness: a reserve was just answered 400 on a listing that is reserved
C1_Witness ==
    /\ res.op = "reserve" /\ res.code = 400
    /\ ListingExists(res.id)
    /\ FoodListing[res.id].status = "reserved"
    /\ FoodClaim # <<>>

\* C2: for an existing listing and a resolvable actor, a claim request is
\* answered 400 exactly when the listing's status is 'claimed' (so it goes
\* ahead from 'available', 'reserved' and 'expired', whoever holds a
\* reservation); a claim answered at once (400, 404) writes nothing; a claim
\* handler that went ahead sets the listing's status to 'claimed' in its
\* status write and is only ever answered 200.
C2_ClaimRejectedIffClaimed ==
    [][/\ \A u \in UserIds, id \in ListingIds :
             Accepted("claim", u, id)
             => /\ (res'.code # 0) => (UNCHANGED stores /\ io' = <<>>)
                /\ (ListingExists(id) /\ Resolves(u))
                   => (res'.code = 400 <=> FoodListing[id].status = "claimed")
                /\ (ListingExists(id) /\ Resolves(u))
                   => res'.code \in {0, 400}
       /\ \A r \in Slots :
             (req[r].op = "claim" /\ Steps(r))
             => /\ req[r].pc = "updateFoodStatus"
                   => FoodListing'[req[r].id].status = "claimed"
                /\ req'[r].pc = "idle" => res'.code = 200]_vars

\* C2 witness: a claim was just answered 200 on a listing, now 'claimed',
\* that another actor holds a pending reservation on
C2_Witness ==
    /\ res.op = "claim" /\ res.code = 200
    /\ ListingExists(res.id)
    /\ FoodListing[res.id].status = "claimed"
    /\ \E i \in 1..Len(FoodClaim) :
          /\ FoodClaim[i].foodListingId = res.id
          /\ FoodClaim[i].claimedBy # res.clerkUserId
          /\ FoodClaim[i].claimType = "reserved"
          /\ FoodClaim[i].status = "pending"

\* C3 (as claimed): when actor A holds a live claim on listing L and A's
\* claim handler writes its claim record, exactly one record exists for
\* (L, A) afterwards, and it is claimType 'claimed', status 'picked-up'.
C3_OneRecordAfterClaim ==
    [][\A r \in Slots :
          (/\ req[r].op = "claim" /\ req[r].pc = "saveClaim" /\ Steps(r)
           /\ LiveRecords(req[r].id, req[r].clerkUserId) # {})
          => LET after == {i \in 1..Len(FoodClaim') :
                              /\ FoodClaim'[i].foodListingId = req[r].id
                              /\ FoodClaim'[i].claimedBy = req[r].clerkUserId}
             IN  /\ Cardinality(after) = 1
                 /\ \A i \in after : /\ FoodClaim'[i].claimType = "claimed"
                                     /\ FoodClaim'[i].status = "picked-up"]_vars

\* C4: an unclaim request of actor A on listing L, when no record of (L, A)
\* is pending or confirmed, is answered 404 at once; no listing, claim record
\* or notification changes and nothing is emitted.
C4_UnclaimWithoutLiveClaim ==
    [][\A u \in UserIds, id \in ListingIds :
          (Accepted("unclaim", u, id) /\ LiveRecords(id, u) = {})
          => (/\ res'.code = 404
              /\ req' = req
              /\ UNCHANGED stores
              /\ io' = <<>>)]_vars

\* C4 witness: an unclaim was just answered 404 for an actor whose only
\* record on the listing is picked-up
C4_Witness ==
    /\ res.op = "unclaim" /\ res.code = 404
    /\ Records(res.id, res.clerkUserId) # {}
    /\ \A i \in Records(res.id, res.clerkUserId) :
          FoodClaim[i].status = "picked-up"

\* What each step of an unclaim handler does to the stores: the save sets
\* the status of the record it holds to 'cancelled' and changes nothing
\* else; the status write sets the listing's status to 'available' and
\* changes nothing else; the notification step leaves listings and claim
\* records alone.
UnclaimWrites(r) ==
    /\ req[r].pc = "saveClaim"
       => /\ FoodClaim' = [FoodClaim EXCEPT ![req[r].claim].status = "cancelled"]
          /\ UNCHANGED <<FoodListing, Notification>>
    /\ req[r].pc = "updateFoodStatus"
       => /\ FoodListing' =
                [FoodListing EXCEPT ![req[r].id].status = "available"]
          /\ UNCHANGED FoodClaim
    /\ req[r].pc = "createNotification"
       => UNCHANGED <<FoodListing, FoodClaim>>
    /\ req'[r].pc = "idle" => res'.code = 200

\* C5, the effect alone: an unclaim of actor A on listing L that goes ahead
\* holds one record of (L, A), live when the handler looked it up; the
\* handler sets that record to 'cancelled', sets L's status to 'available',
\* and leaves every other claim record and every other listing unchanged.
\* Nothing is said of the listing's status when this is applied.
C5_UnclaimEffect ==
    [][/\ \A u \in UserIds, id \in ListingIds :
             (Accepted("unclaim", u, id) /\ res'.code = 0)
             => /\ UNCHANGED stores
                /\ \E r \in Slots : /\ req[r].pc = "idle"
                                    /\ req'[r].op = "unclaim"
                                    /\ req'[r].claim \in LiveRecords(id, u)
       /\ \A r \in Slots :
             (req[r].op = "unclaim" /\ Steps(r)) => UnclaimWrites(r)]_vars

\* C5 (as claimed): the same, and the record is live when it is set to
\* 'cancelled', and the listing's status is 'reserved' or 'claimed' when it
\* is set to 'available'.
C5_UnclaimOnlyFromReservedOrClaimed ==
    [][\A r \in Slots :
          (req[r].op = "unclaim" /\ Steps(r))
          => /\ UnclaimWrites(r)
             /\ req[r].pc = "saveClaim"
                => FoodClaim[req[r].claim].status \in {"pending", "confirmed"}
             /\ req[r].pc = "updateFoodStatus"
                => FoodListing[req[r].id].status \in {"reserved", "claimed"}]_vars

\* C5, the effect alone, witness: an unclaim was just answered 200; the
\* actor has a cancelled record on the listing, the listing is 'available',
\* and another actor's record stands beside it
C5_Witness ==
    /\ res.op = "unclaim" /\ res.code = 200
    /\ FoodListing[res.id].status = "available"
    /\ \E i \in Records(res.id, res.clerkUserId) :
          FoodClaim[i].status = "cancelled"
    /\ \E i \in 1..Len(FoodClaim) : FoodClaim[i].claimedBy # res.clerkUserId

\* the edges of the listing state machine
StatusEdges ==
    {<<"available", "reserved">>, <<"available", "claimed">>,
     <<"reserved", "claimed">>, <<"reserved", "available">>,
     <<"claimed", "available">>}

\* C6 (as claimed): every change of a listing's status is an edge of the
\* state machine; in particular no step moves a listing to 'expired'.
C6_StatusChangesAreEdges ==
    [][\A id \in 1..Len(FoodListing) :
          FoodListing'[id].status # FoodListing[id].status
          => <<FoodListing[id].status, FoodListing'[id].status>>
                \in StatusEdges]_vars

\* C7 (as claimed): each (listing, claimant) pair has at most one claim
\* record whose status is pending or confirmed.
C7_OneLiveClaimPerPair ==
    \A id \in ListingIds, u \in UserIds : Cardinality(LiveRecords(id, u)) <= 1

\* the claim records other than the one at position k are the same after
\* the step, and none is dropped
LedgerKeeps(k) ==
    /\ Len(FoodClaim') >= Len(FoodClaim)
    /\ \A j \in 1..Len(FoodClaim) : j # k => FoodClaim'[j] = FoodClaim[j]

\* the ledger holds, after the step, a record of (id, u) of this type and
\* status
RecordAfter(id, u, claimType, status) ==
    \E i \in 1..Len(FoodClaim') :
        FoodClaim'[i] = [foodListingId |-> id, claimedBy |-> u,
                         claimType |-> claimType, status |-> status]

\* C8: a claim handler that passed the status check never looks at the
\* listing's status again.  Whatever the status has become (another claim
\* may have set it to 'claimed' meanwhile), its lookup goes on to the save,
\* its save leaves a 'claimed'/'picked-up' record of its own pair in the
\* ledger and keeps every other record, its status write sets the listing
\* to 'claimed' (the last write wins), and it is answered 200 only.
C8_ClaimPastCheckGoesThrough ==
    [][\A r \in Slots :
          (req[r].op = "claim" /\ Steps(r))
          => /\ req[r].pc = "findClaim"
                => (UNCHANGED stores /\ req'[r].pc = "saveClaim")
             /\ req[r].pc = "saveClaim"
                => /\ RecordAfter(req[r].id, req[r].clerkUserId,
                                  "claimed", "picked-up")
                   /\ LedgerKeeps(req[r].claim)
                   /\ UNCHANGED <<FoodListing, Notification>>
                   /\ req'[r].pc = "updateFoodStatus"
             /\ req[r].pc = "updateFoodStatus"
                => /\ FoodListing'[req[r].id].status = "claimed"
                   /\ UNCHANGED FoodClaim
             /\ req'[r].pc = "idle" => res'.code = 200]_vars

\* C8 witness: three requests were accepted (one create and two claims, so
\* the claims overlapped: a claim after the other's status write is
\* answered 400); both handlers are over, the last one answered 200, the
\* ledger holds two picked-up records of different actors for the one
\* listing, and the listing is 'claimed'.
C8_Witness ==
    /\ budget = MaxRequests - 3
    /\ \A r \in Slots : req[r].pc = "idle"
    /\ res.op = "claim" /\ res.code = 200
    /\ Len(FoodListing) = 1 /\ FoodListing[1].status = "claimed"
    /\ Len(FoodClaim) = 2
    /\ \A i \in 1..2 : /\ FoodClaim[i].foodListingId = 1
                        /\ FoodClaim[i].claimType = "claimed"
                        /\ FoodClaim[i].status = "picked-up"
    /\ FoodClaim[1].claimedBy # FoodClaim[2].claimedBy

\* C9: a reserve handler that passed the status check never looks at the
\* listing's status or at the ledger again.  Its save appends a 'reserved'/
\* 'pending' record of its own pair and keeps every record already there,
\* its status write sets the listing to 'reserved', and it is answered 200
\* only.
C9_ReservePastCheckGoesThrough ==
    [][\A r \in Slots :
          (req[r].op = "reserve" /\ Steps(r))
          => /\ req[r].pc = "saveClaim"
                => /\ FoodClaim' = Append(FoodClaim,
                          [foodListingId |-> req[r].id,
                           claimedBy |-> req[r].clerkUserId,
                           claimType |-> "reserved", status |-> "pending"])
                   /\ UNCHANGED <<FoodListing, Notification>>
                   /\ req'[r].pc = "updateFoodStatus"
             /\ req[r].pc = "updateFoodStatus"
                => /\ FoodListing'[req[r].id].status = "reserved"
                   /\ UNCHANGED FoodClaim
             /\ req'[r].pc = "idle" => res'.code = 200]_vars

\* C9 witness: three requests were accepted (one create and two reserves:
\* both reserves read the listing 'available', so they overlapped); both
\* handlers are over, the last one answered 200, the listing is 'reserved'
\* and the ledger holds two pending reservations for it, of two actors.
C9_Witness ==
    /\ budget = MaxRequests - 3
    /\ \A r \in Slots : req[r].pc = "idle"
    /\ res.op = "reserve" /\ res.code = 200
    /\ Len(FoodListing) = 1 /\ FoodListing[1].status = "reserved"
    /\ Len(FoodClaim) = 2
    /\ \A i \in 1..2 : /\ FoodClaim[i].foodListingId = 1
                        /\ FoodClaim[i].claimType = "reserved"
                        /\ FoodClaim[i].status = "pending"
    /\ FoodClaim[1].claimedBy # FoodClaim[2].claimedBy

\* every claim record references a listing of the listing store and a
\* claimant that a profile collection resolves
ClaimsReferToListingAndUser ==
    \A i \in 1..Len(FoodClaim) :
        /\ ListingExists(FoodClaim[i].foodListingId)
        /\ Resolves(FoodClaim[i].claimedBy)

\* this step accepts a reserve or claim of actor u on listing id where the
\* listing does not exist or the actor does not resolve
AcceptedUnbacked(u, id) ==
    /\ Accepted("reserve", u, id) \/ Accepted("claim", u, id)
    /\ ~ListingExists(id) \/ ~Resolves(u)

\* the status check of the request this step answered turns the listing down
StatusRulesOut(id) ==
    /\ ListingExists(id)
    /\ \/ res'.op = "reserve" /\ FoodListing[id].status # "available"
       \/ res'.op = "claim" /\ FoodListing[id].status = "claimed"

MutatingOps ==
    {"create", "update", "delete", "reserve", "claim", "unclaim", "chat",
     "read"}

\* C11 (as claimed): a mutating request whose actor has no Individual, NGO
\* or SocialWorker profile is answered 404 at once, and no listing, claim
\* record, chat message or notification is created or modified.
C11_UnresolvedActorMutatesNothing ==
    [][\A op \in MutatingOps, u \in UserIds, id \in ListingIds \cup {0} :
          (Accepted(op, u, id) /\ ~Resolves(u))
          => (/\ res'.code = 404
              /\ req' = req
              /\ UNCHANGED <<stores, ChatMessage>>)]_vars

\* an actor without a profile has just marked a chat message read
UnresolvedActorMarkedRead ==
    /\ res.op = "read" /\ res.code = 200 /\ ~Resolves(res.clerkUserId)
    /\ \E i \in 1..Len(ChatMessage) : ChatMessage[i].isRead

\* C12 (as claimed): once a listing's isActive flag is false, no step
\* changes the listing's status or sets isActive back to true.
C12_SoftDeleteTerminal ==
    [][\A id \in 1..Len(FoodListing) :
          ~FoodListing[id].isActive
          => (/\ FoodListing'[id].status = FoodListing[id].status
              /\ ~FoodListing'[id].isActive)]_vars

\* the listings the last response carries
Returned == {result[i] : i \in 1..Len(result)}

\* the last response is that of a lookup by id of an existing listing, and
\* carries that listing
FoundById ==
    (res.op = "listing" /\ ListingExists(res.id))
    => (res.code = 200 /\ result = <<res.id>>)

\* C13 (amended): a soft-deleted listing is in the response of no filtered
\* listing query, nearby query, my-donations query or donations list, for
\* any filter and page, and a lookup by its id still returns it.  (The
\* admin listing route is not among them: it applies no isActive
\* condition.)
C13_InactiveNotDiscoverable ==
    /\ res.op \in {"listings", "nearby", "my-donations", "donations"}
       => \A id \in Returned : FoodListing[id].isActive
    /\ FoundById

\* C13 (as claimed): the same, the admin listing route included.
C13_InactiveInNoListingQuery ==
    /\ res.op \in {"listings", "nearby", "my-donations", "donations", "admin"}
       => \A id \in Returned : FoodListing[id].isActive
    /\ FoundById

\* C13 witness: of two listings one is soft-deleted; a filtered listing
\* query or a my-donations query was just answered with the other one alone
C13_Witness ==
    /\ res.op \in {"listings", "my-donations"} /\ res.code = 200
    /\ Len(FoodListing) = 2
    /\ \E id \in 1..2 : ~FoodListing[id].isActive
    /\ Len(result) = 1 /\ FoodListing[result[1]].isActive

\* a lookup by id has just returned a soft-deleted listing
InactiveFoundById ==
    /\ res.op = "listing" /\ res.code = 200
    /\ result = <<res.id>> /\ ~FoodListing[res.id].isActive

\* C14 (as claimed): no step of an update handler changes the status, the
\* isActive flag or the donorId of a listing, whatever the body carries.
C14_UpdateKeepsStatusFlagAndDonor ==
    [][\A r \in Slots :
          (req[r].op = "update" /\ Steps(r))
          => \A id \in 1..Len(FoodListing) :
                /\ FoodListing'[id].status = FoodListing[id].status
                /\ FoodListing'[id].isActive = FoodListing[id].isActive
                /\ FoodListing'[id].donorId = FoodListing[id].donorId]_vars

\* the request this step accepts is answered at once with this code, and
\* the step writes nothing and emits nothing
RejectedWith(code) ==
    /\ res'.code = code
    /\ req' = req
    /\ UNCHANGED stores
    /\ io' = <<>>

\* C15: an update or soft-delete request on an existing listing by an actor
\* whose id is not the listing's donorId is answered 403 at once, writing
\* and emitting nothing; on a missing listing it is answered 404; the
\* donor's own request is not answered at that point but goes ahead.
C15_NonOwnerForbidden ==
    [][\A op \in {"update", "delete"}, u \in UserIds, id \in ListingIds :
          Accepted(op, u, id)
          => /\ ~ListingExists(id) => RejectedWith(404)
             /\ (ListingExists(id) /\ FoodListing[id].donorId # u)
                => RejectedWith(403)
             /\ (ListingExists(id) /\ FoodListing[id].donorId = u)
                => (res'.code = 0 /\ UNCHANGED stores /\ io' = <<>>)]_vars

\* C15 witness: an update or soft delete by a resolvable actor who is not
\* the donor was just answered 403 on an existing listing
C15_Witness ==
    /\ res.op \in {"update", "delete"} /\ res.code = 403
    /\ ListingExists(res.id)
    /\ FoodListing[res.id].donorId # res.clerkUserId
    /\ Resolves(res.clerkUserId)

\* this step inserts a listing
Inserts == Len(FoodListing') = Len(FoodListing) + 1

\* C16 (as claimed): every listing a step inserts, through the create
\* route or the submit route, has status 'available', isActive true and
\* the donorId of the resolved actor the step answers.
C16_InsertedAvailableActiveOwned ==
    [][Inserts
       => LET doc == FoodListing'[Len(FoodListing')]
          IN  /\ doc.status = "available"
              /\ doc.isActive
              /\ doc.donorId = res'.clerkUserId
              /\ Resolves(doc.donorId)]_vars

\* the global broadcasts among the events of a step
IsGlobal(e) == e.room = "all"

Broadcasts(events) == SelectSeq(events, IsGlobal)

\* the status a successful reserve, claim and unclaim leave the listing in
StatusAfter(op) ==
    CASE op = "reserve" -> "reserved"
      [] op = "claim" -> "claimed"
      [] op = "unclaim" -> "available"

\* the steps of a handler in which it writes the listing
WritesListing == {"updateFoodStatus", "updateListing", "deactivate"}

\* no event of these goes to all clients
NoBroadcast(events) == \A i \in 1..Len(events) : events[i].room # "all"

\* C17: a reserve, claim, unclaim, update or soft-delete handler emits a
\* global broadcast in the step in which it writes the listing and in no
\* other step: one 'food-status-updated' carrying the status just written,
\* one 'food-listing-updated', one 'food-listing-deleted', and nothing else
\* in that step.  That step comes once in a handler (after it the handler
\* only notifies and answers), a handler answers 200 only after it, and the
\* step that accepts or rejects a request (the one that takes it off the
\* budget) emits no global broadcast and writes no listing.
C17_OneBroadcastPerSuccess ==
    [][/\ \A r \in Slots :
             (/\ Steps(r)
              /\ req[r].op \in {"reserve", "claim", "unclaim", "update",
                                 "delete"})
             => LET q == req[r]
                IN  /\ q.pc = "updateFoodStatus"
                       => /\ FoodListing'[q.id].status = StatusAfter(q.op)
                          /\ io' = <<[room |-> "all", user |-> None,
                                      event |-> "food-status-updated",
                                      id |-> q.id,
                                      status |-> FoodListing'[q.id].status]>>
                    /\ q.pc = "updateListing"
                       => io' = <<[room |-> "all", user |-> None,
                                   event |-> "food-listing-updated",
                                   id |-> q.id,
                                   status |-> FoodListing'[q.id].status]>>
                    /\ q.pc = "deactivate"
                       => /\ ~FoodListing'[q.id].isActive
                          /\ io' = <<[room |-> "all", user |-> None,
                                      event |-> "food-listing-deleted",
                                      id |-> q.id, status |-> None]>>
                    /\ q.pc \notin WritesListing
                       => (NoBroadcast(io') /\ UNCHANGED FoodListing)
                    /\ q.pc \in WritesListing
                       => req'[r].pc \in {"createNotification", "idle"}
                    /\ q.pc = "createNotification" => req'[r].pc = "idle"
                    /\ req'[r].pc = "idle"
                       => /\ res'.code = 200
                          /\ q.pc \in WritesListing \cup {"createNotification"}
       /\ budget' = budget - 1
          => (NoBroadcast(io') /\ UNCHANGED FoodListing)]_vars

\* C17 witness: a reserve, claim or unclaim was just answered 200 in the
\* step that wrote the listing's status, and the one event of that step is
\* the global 'food-status-updated' carrying the listing's status
C17_Witness ==
    /\ res.op \in {"reserve", "claim", "unclaim"} /\ res.code = 200
    /\ io = <<[room |-> "all", user |-> None,
               event |-> "food-status-updated", id |-> res.id,
               status |-> FoodListing[res.id].status]>>

\* C18 (as claimed): every step that inserts a listing, through the create
\* route or the submit route, emits exactly one global 'new-food-listing'
\* broadcast, carrying the listing inserted.
C18_InsertBroadcastsNewListing ==
    [][Inserts
       => Broadcasts(io') =
             <<[room |-> "all", user |-> None, event |-> "new-food-listing",
                id |-> Len(FoodListing'),
                status |-> FoodListing'[Len(FoodListing')].status]>>]_vars

\* a listing was just inserted through the create route, with its broadcast
CreateBroadcast ==
    /\ res.op = "create" /\ res.code = 201
    /\ Len(io) = 1 /\ io[1].event = "new-food-listing" /\ io[1].id = res.id

\* What the step of the handler in slot r does to the notification store:
\* nothing before and in the status write; after the status write the
\* handler answers 200 when its actor is the listing's donor, and otherwise
\* goes on to one step that appends one notification for the donor, with
\* the listing as relatedId, and answers 200.
NotifiesDonorUnlessActor(r) ==
    LET q == req[r]
    IN  /\ q.pc \in {"findClaim", "saveClaim"} => UNCHANGED Notification
        /\ q.pc = "updateFoodStatus"
           => /\ UNCHANGED Notification
              /\ q.clerkUserId = FoodListing'[q.id].donorId
                 => (req'[r].pc = "idle" /\ res'.code = 200)
              /\ q.clerkUserId # FoodListing'[q.id].donorId
                 => /\ req'[r].pc = "createNotification"
                    /\ req'[r].userId = FoodListing'[q.id].donorId
        /\ q.pc = "createNotification"
           => /\ Notification' = Append(Notification,
                     [userId |-> q.userId, type |-> "food-claimed",
                      relatedId |-> q.id])
              /\ req'[r].pc = "idle" /\ res'.code = 200

\* C19: a reserve of listing L by actor A that succeeds persists exactly
\* one notification for L's donor (relatedId L) when A is not the donor,
\* and none when A is the donor; the step that accepts or rejects a reserve
\* persists none.
C19_ReserveNotifiesDonorUnlessActor ==
    [][/\ \A r \in Slots :
             (req[r].op = "reserve" /\ Steps(r)) => NotifiesDonorUnlessActor(r)
       /\ \A u \in UserIds, id \in ListingIds :
             Accepted("reserve", u, id) => UNCHANGED Notification]_vars

\* C19 witness: a reserve by an actor who is not the donor was just
\* answered 200, and the one notification there is is the donor's, about
\* that listing
C19_Witness ==
    /\ res.op = "reserve" /\ res.code = 200
    /\ FoodListing[res.id].donorId # res.clerkUserId
    /\ Len(Notification) = 1
    /\ Notification[1].userId = FoodListing[res.id].donorId
    /\ Notification[1].relatedId = res.id

\* C20 (amended): a claim or an unclaim on listing L that succeeds persists
\* exactly one notification for L's donor when the actor is not the donor,
\* and none when the actor is the donor.
C20_ClaimUnclaimNotifyDonorUnlessActor ==
    [][/\ \A r \in Slots :
             (req[r].op \in {"claim", "unclaim"} /\ Steps(r))
             => NotifiesDonorUnlessActor(r)
       /\ \A op \in {"claim", "unclaim"}, u \in UserIds, id \in ListingIds :
             Accepted(op, u, id) => UNCHANGED Notification]_vars

\* C20 (as claimed): every claim and unclaim handler that succeeds has
\* persisted a notification for the donor, whoever the actor is: after its
\* status write it always goes on to the step that appends it.
C20_ClaimUnclaimAlwaysNotifyDonor ==
    [][\A r \in Slots :
          (req[r].op \in {"claim", "unclaim"} /\ Steps(r))
          => /\ req[r].pc = "updateFoodStatus"
                => /\ req'[r].pc = "createNotification"
                   /\ req'[r].userId = FoodListing'[req[r].id].donorId
             /\ req[r].pc = "createNotification"
                => Notification' = Append(Notification,
                      [userId |-> req[r].userId, type |-> "food-claimed",
                       relatedId |-> req[r].id])]_vars

\* C20 witness: a claim or unclaim by the listing's donor was just answered
\* 200 and the notification store is empty
C20_Witness ==
    /\ res.op \in {"claim", "unclaim"} /\ res.code = 200
    /\ FoodListing[res.id].donorId = res.clerkUserId
    /\ FoodListing[res.id].status = StatusAfter(res.op)
    /\ Notification = <<>>

\* a claim or unclaim by an actor who is not the donor was just answered
\* 200 with the donor's notification persisted last
ClaimNotifiedDonor ==
    /\ res.op \in {"claim", "unclaim"} /\ res.code = 200
    /\ FoodListing[res.id].donorId # res.clerkUserId
    /\ Notification # <<>>
    /\ Notification[Len(Notification)].userId = FoodListing[res.id].donorId
    /\ Notification[Len(Notification)].relatedId = res.id

\* the notification collection only grows, at its end
NotificationsKept ==
    /\ Len(Notification') >= Len(Notification)
    /\ SubSeq(Notification', 1, Len(Notification)) = Notification

\* C21: the createNotification step of a reserve, claim, unclaim or chat
\* handler ends the handler with its success response (200, 201 for a chat
\* message) whether or not the notification was stored or published: the
\* listing, the claim ledger and the chat log written before stay as they
\* are, the step stores at most the one notification, the handler is not in
\* flight afterwards (nothing is tried again), and no step ever removes a
\* stored notification.
C21_NotificationFireAndForget ==
    [][/\ NotificationsKept
       /\ \A r \in Slots :
             (Steps(r) /\ req[r].pc = "createNotification")
             => /\ req[r].op \in {"reserve", "claim", "unclaim", "chat"}
                /\ req'[r].pc = "idle"
                /\ res'.op = req[r].op
                /\ res'.code = (IF req[r].op = "chat" THEN 201 ELSE 200)
                /\ UNCHANGED <<FoodListing, FoodClaim, ChatMessage>>
                /\ Len(Notification') <= Len(Notification) + 1]_vars

\* a reserve by another actor than the donor was answered 200 with the
\* listing reserved and the claim record stored, and no notification exists:
\* its notification failed
C21_Witness ==
    /\ res.op = "reserve" /\ res.code = 200
    /\ FoodListing[res.id].status = "reserved"
    /\ FoodListing[res.id].donorId # res.clerkUserId
    /\ \E i \in 1..Len(FoodClaim) : /\ FoodClaim[i].foodListingId = res.id
                                    /\ FoodClaim[i].claimedBy = res.clerkUserId
                                    /\ FoodClaim[i].status = "pending"
    /\ Notification = <<>>

\* the requests whose handlers call createNotification
NotificationTriggers == {"reserve", "claim", "unclaim", "chat"}

\* this step stores the notification of the createNotification call that the
\* handler in slot r is in
StoresNotificationOf(r) ==
    /\ Steps(r)
    /\ req[r].pc = "createNotification"
    /\ req[r].op \in NotificationTriggers
    /\ Notification' = Append(Notification,
           [userId |-> req[r].userId,
            type |-> (IF req[r].op = "chat" THEN "message" ELSE "food-claimed"),
            relatedId |-> req[r].id])

\* C22: a step that emits 'new-notification' stores a notification in that
\* same step and emits nothing else; the event carries the stored document
\* and goes to the room of that document's userId only.  A step that stores
\* no notification emits no such event.  Every change of the notification
\* collection is the insertion made by the createNotification call of a
\* reserve, claim, unclaim or chat handler.
C22_NotificationEventFollowsRecord ==
    [][/\ \A i \in 1..Len(io') :
             io'[i].event = "new-notification"
             => /\ Len(io') = 1
                /\ \E r \in Slots : StoresNotificationOf(r)
                /\ io'[i].id = Len(Notification')
                /\ io'[i].room = "user"
                /\ io'[i].user = Notification'[Len(Notification')].userId
       /\ Notification' # Notification
          => \E r \in Slots : StoresNotificationOf(r)]_vars

\* the notification of a chat message was stored and published to the room
\* of its userId, which is not the sender
C22_Witness ==
    /\ res.op = "chat" /\ res.code = 201
    /\ Len(io) = 1
    /\ io[1].event = "new-notification"
    /\ io[1].id = Len(Notification)
    /\ io[1].room = "user"
    /\ io[1].user = Notification[io[1].id].userId
    /\ io[1].user # res.clerkUserId
    /\ Notification[io[1].id].type = "message"

\* the actors holding a live claim record on listing id
LiveClaimants(id) ==
    {FoodClaim[i].claimedBy : i \in {j \in 1..Len(FoodClaim) :
        /\ FoodClaim[j].foodListingId = id
        /\ FoodClaim[j].status \in LiveStatuses}}

\* C23: when a chat handler that has stored its message picks the user to
\* notify, a donor's message notifies an actor holding a live (pending or
\* confirmed) claim record on the listing at that moment, and nobody when
\* there is none; another sender's message notifies the listing's donor.
C23_ChatNotifiesLiveClaimantOrDonor ==
    [][\A r \in Slots :
          (/\ Steps(r)
           /\ req[r].op = "chat"
           /\ req[r].pc \in {"saveMessage", "findRecipient"}
           /\ req'[r].pc # "findRecipient")
          => LET id == req[r].id
                 donor == FoodListing[id].donorId
                 notified == IF req'[r].pc = "createNotification"
                             THEN {req'[r].userId} ELSE {}
             IN  IF req[r].clerkUserId = donor
                 THEN /\ notified \subseteq LiveClaimants(id)
                      /\ LiveClaimants(id) \ {donor} # {} => notified # {}
                 ELSE notified = {donor}]_vars

\* the chat log after every message of listing id not sent by u is flagged
ReadBy(log, id, u) ==
    [i \in 1..Len(log) |->
        IF log[i].foodListingId = id /\ log[i].senderId # u
        THEN [log[i] EXCEPT !.isRead = TRUE]
        ELSE log[i]]

\* C24: a mark-read request of actor u on listing id is answered 200 and
\* flags exactly the messages of that listing not sent by u, leaving u's own
\* messages, the messages of other listings and every other store as they
\* are; no step clears a flag or drops a message; and the same request made
\* again right after it would leave the chat log as it is.
C24_MarkReadFlagsOthersMessages ==
    /\ [][\A u \in UserIds, id \in ListingIds :
             Accepted("read", u, id)
             => /\ ChatMessage' = ReadBy(ChatMessage, id, u)
                /\ res'.code = 200
                /\ UNCHANGED stores]_vars
    /\ [][\A i \in 1..Len(ChatMessage) :
             /\ i <= Len(ChatMessage')
             /\ ChatMessage[i].isRead => ChatMessage'[i].isRead]_vars
    /\ [](res.op = "read" => MarkedRead(res.id, res.clerkUserId) = ChatMessage)

\* a mark-read was answered where the listing has a message of another
\* sender, now flagged, and a message of the actor, not flagged, and another
\* listing has a message of another sender, not flagged
C24_Witness ==
    /\ res.op = "read" /\ res.code = 200
    /\ \E i, j, k \in 1..Len(ChatMessage) :
          /\ ChatMessage[i].foodListingId = res.id
          /\ ChatMessage[i].senderId # res.clerkUserId
          /\ ChatMessage[i].isRead
          /\ ChatMessage[j].foodListingId = res.id
          /\ ChatMessage[j].senderId = res.clerkUserId
          /\ ~ChatMessage[j].isRead
          /\ ChatMessage[k].foodListingId # res.id
          /\ ChatMessage[k].senderId # res.clerkUserId
          /\ ~ChatMessage[k].isRead

\* C25: when the server handles a typing or share-location event of a socket
\* for a listing, the event is relayed to exactly the connected sockets that
\* are in that listing's food room at that moment, the sending socket left
\* out; the step writes no collection, changes no room and emits nothing
\* else.
C25_SignalReachesRoomExceptSender ==
    [][(/\ signal' # signal
        /\ signal'.event \in {"typing", "share-location"})
       => /\ signal'.to =
                {t \in SocketIds \ {signal'.socket} :
                    /\ sockets[t].connected
                    /\ [room |-> "food", user |-> None, id |-> signal'.id]
                          \in sockets[t].rooms}
          /\ UNCHANGED <<profiles, stores, ChatMessage, sockets>>
          /\ io' = <<>>]_vars

\* a socket in the room of a listing sent a typing event for it, which went
\* to another socket of the room and to no third one
C25_Witness ==
    /\ signal.event = "typing"
    /\ sockets[signal.socket].connected
    /\ FoodRoom(signal.id) \in sockets[signal.socket].rooms
    /\ signal.to # {}
    /\ signal.socket \notin signal.to
    /\ signal.to \cup {signal.socket} # SocketIds

\* socket s is connected and in the user room of u
InUserRoom(s, u) ==
    /\ sockets[s].connected
    /\ [room |-> "user", user |-> u, id |-> 0] \in sockets[s].rooms

\* C26: whenever the server handles a join-user-room event, whatever socket
\* sent it and whatever identity it names, the socket is in that identity's
\* user room afterwards; a socket stays in the rooms it joined until it
\* disconnects; and every 'new-notification' event emitted for an identity
\* reaches every socket that is in that identity's user room.
C26_AnySocketJoinsAnyUserRoom ==
    /\ [][(signal' # signal /\ signal'.event = "join-user-room")
          => /\ sockets[signal'.socket].connected
             /\ sockets'[signal'.socket].connected
             /\ [room |-> "user", user |-> signal'.user, id |-> 0]
                   \in sockets'[signal'.socket].rooms]_vars
    /\ [][\A s \in SocketIds :
             \/ sockets[s].rooms \subseteq sockets'[s].rooms
             \/ /\ signal' # signal
                /\ signal'.socket = s
                /\ signal'.event = "disconnect"]_vars
    /\ [](\A i \in 1..Len(io) :
             io[i].event = "new-notification"
             => \A s \in SocketIds :
                   InUserRoom(s, io[i].user) => s \in Receivers(io[i]))

\* two sockets joined the user room of the same identity, and a notification
\* published for that identity reaches both
C26_Witness ==
    /\ Len(io) = 1
    /\ io[1].event = "new-notification"
    /\ \E s, t \in SocketIds :
          /\ s # t
          /\ InUserRoom(s, io[1].user)
          /\ InUserRoom(t, io[1].user)
          /\ {s, t} \subseteq Receivers(io[1])

\* the role tag of the first collection, in the order Individual, NGO,
\* SocialWorker, that has a profile of identity u (None when none has)
CollectionOf(u) ==
    IF \E p \in Individual : p.clerkUserId = u THEN "individual"
    ELSE IF \E p \in NGO : p.clerkUserId = u THEN "ngo"
    ELSE IF \E p \in SocialWorker : p.clerkUserId = u THEN "social-worker"
    ELSE None

\* this step looks identity u up for the request op and hands the caller
\* the role tag of the first collection that has u, or answers 404 when no
\* collection has it
LooksUp(op, u) ==
    Accepted(op, u, 0)
    => IF CollectionOf(u) = None
       THEN res'.code = 404
       ELSE \E r \in Slots : /\ req[r].pc = "idle"
                             /\ req'[r].op = op
                             /\ req'[r].userType = CollectionOf(u)

\* this step answers the profile request for u with the role tag of the
\* first collection that has u, or with 404
AnswersUser(u) ==
    Accepted("user", u, 0)
    => IF CollectionOf(u) = None
       THEN res'.code = 404
       ELSE res'.code = 200 /\ result' = <<CollectionOf(u)>>

\* C27: for every identity and every content of the three collections, the
\* lookup of the profile route, of the create route and of the submit route
\* yields the Individual profile tagged 'individual' if there is one, else
\* the NGO profile tagged 'ngo', else the SocialWorker profile tagged
\* 'social-worker', else not-found; the tag is the collection's, never the
\* userType stored in the profile.
C27_LookupTagsByCollection ==
    [][\A u \in ProfileIds :
          /\ AnswersUser(u)
          /\ LooksUp("create", u)
          /\ LooksUp("submit", u)]_vars

\* the same for getUserByClerkId alone (the profile and create routes)
GetUserByClerkIdTagsByCollection ==
    [][\A u \in ProfileIds : AnswersUser(u) /\ LooksUp("create", u)]_vars

\* a profile request was answered for an identity with a profile in two
\* collections and a stored userType that is not its collection's
DoubleProfileLookedUp ==
    /\ res.op = "user" /\ res.code = 200
    /\ \E p \in Individual, q \in NGO :
          /\ p.clerkUserId = res.clerkUserId
          /\ q.clerkUserId = res.clerkUserId
          /\ p.userType # "individual"

\* the profiles of identity u in the three collections, by collection
ProfilesOf(u) ==
    {k \in Kinds :
        \E p \in (CASE k = "individual" -> Individual
                    [] k = "ngo" -> NGO
                    [] k = "social-worker" -> SocialWorker) :
            p.clerkUserId = u}

\* C28: in every reachable state each identity has a profile in at most one
\* of the three collections, and a registration request for an identity that
\* has a profile in any collection is answered 409 at once and writes
\* nothing.
C28_OneProfilePerIdentity ==
    /\ [](\A u \in ProfileIds : Cardinality(ProfilesOf(u)) <= 1)
    /\ [][\A k \in Kinds, u \in ProfileIds :
             (Accepted(RegisterOp(k), u, 0) /\ ProfilesOf(u) # {})
             => /\ res'.code = 409
                /\ req' = req
                /\ UNCHANGED <<profiles, stores>>]_vars

\* the second half alone: a registration accepted when the identity has a
\* profile is turned down
RegistrationConflictAtAccept ==
    [][\A k \in Kinds, u \in ProfileIds :
          (Accepted(RegisterOp(k), u, 0) /\ ProfilesOf(u) # {})
          => /\ res'.code = 409
             /\ req' = req
             /\ UNCHANGED <<profiles, stores>>]_vars

\* listing id is 'claimed' and none of its claim records is pending or
\* confirmed
DeadEnd(id) ==
    /\ ListingExists(id)
    /\ FoodListing[id].status = "claimed"
    /\ \A i \in 1..Len(FoodClaim) :
          FoodClaim[i].foodListingId = id
          => FoodClaim[i].status \notin {"pending", "confirmed"}

\* C29: a reserve, claim or unclaim request accepted while the listing it
\* names is 'claimed' with no pending or confirmed record is answered at
\* once, reserve and claim with 400 and unclaim with 404; no handler goes
\* in flight for it, and the step changes no listing, claim record or
\* notification and emits nothing.  The unclaim of an actor whose
\* reservation was upgraded to 'picked-up' by the actor's own claim is such a
\* request: it is answered 404 and the listing stays 'claimed'.
C29_ClaimedWithoutLiveClaimIsDeadEnd ==
    [][budget' = budget - 1
       => \A id \in ListingIds :
             DeadEnd(id)
             => /\ \A r \in Slots :
                      (req[r].pc = "idle" /\ req'[r].pc # "idle")
                      => ~(/\ req'[r].id = id
                           /\ req'[r].op \in {"reserve", "claim", "unclaim"})
                /\ (res'.id = id /\ res'.op \in {"reserve", "claim", "unclaim"})
                   => /\ res'.code = (IF res'.op = "unclaim" THEN 404 ELSE 400)
                      /\ UNCHANGED stores
                      /\ io' = <<>>]_vars

\* an unclaim was answered 404 for an actor whose only record on the listing
\* is the reservation upgraded to 'picked-up', and the listing is 'claimed'
C29_Witness ==
    /\ res.op = "unclaim" /\ res.code = 404
    /\ DeadEnd(res.id)
    /\ \E i \in 1..Len(FoodClaim) :
          /\ FoodClaim[i].foodListingId = res.id
          /\ FoodClaim[i].claimedBy = res.clerkUserId
          /\ FoodClaim[i].claimType = "claimed"
          /\ FoodClaim[i].status = "picked-up"
    /\ Len(FoodClaim) = 1
    /\ Len(Notification) = 2

\* C30: when a claim handler writes its claim record, every record that is
\* not pending or confirmed stays as it is, and when the actor has no
\* pending or confirmed record on the listing the handler appends a new
\* record, claimType 'claimed' and status 'picked-up'; no step of any handler
\* changes the status of a cancelled record.
C30_ClaimUpgradesOnlyLiveRecord ==
    [][/\ \A i \in 1..Len(FoodClaim) :
             FoodClaim[i].status = "cancelled"
             => /\ i <= Len(FoodClaim')
                /\ FoodClaim'[i].status = "cancelled"
       /\ \A r \in Slots :
             (Steps(r) /\ req[r].op = "claim" /\ req[r].pc = "saveClaim")
             => /\ \A i \in 1..Len(FoodClaim) :
                      FoodClaim[i].status \notin {"pending", "confirmed"}
                      => FoodClaim'[i] = FoodClaim[i]
                /\ (\A i \in 1..Len(FoodClaim) :
                       (/\ FoodClaim[i].foodListingId = req[r].id
                        /\ FoodClaim[i].claimedBy = req[r].clerkUserId)
                       => FoodClaim[i].status \notin {"pending", "confirmed"})
                   => /\ Len(FoodClaim') = Len(FoodClaim) + 1
                      /\ FoodClaim'[Len(FoodClaim')].foodListingId = req[r].id
                      /\ FoodClaim'[Len(FoodClaim')].claimedBy
                            = req[r].clerkUserId
                      /\ FoodClaim'[Len(FoodClaim')].claimType = "claimed"
                      /\ FoodClaim'[Len(FoodClaim')].status = "picked-up"]_vars

\* the pending or confirmed claim records of listing id, of any claimant
LiveOn(id) ==
    {i \in 1..Len(FoodClaim) : /\ FoodClaim[i].foodListingId = id
                               /\ FoodClaim[i].status \in {"pending",
                                                           "confirmed"}}

\* C31: when each handler runs alone and no update carries a status, in
\* every state between two handlers each listing has at most one pending or
\* confirmed claim record over all claimants, and a listing whose status is
\* 'available' has none.
C31_AtomicOneLiveClaimPerListing ==
    NoneInFlight
    => \A id \in ListingIds :
          /\ Cardinality(LiveOn(id)) <= 1
          /\ (ListingExists(id) /\ FoodListing[id].status = "available")
             => LiveOn(id) = {}

\* between two handlers, a listing that one actor reserved and unclaimed is
\* reserved by another actor: one cancelled and one pending record
C31_Witness ==
    /\ NoneInFlight
    /\ \E id \in ListingIds, i, j \in 1..Len(FoodClaim) :
          /\ ListingExists(id)
          /\ FoodListing[id].status = "reserved"
          /\ LiveOn(id) = {j}
          /\ FoodClaim[i].foodListingId = id
          /\ FoodClaim[i].status = "cancelled"
          /\ FoodClaim[i].claimedBy # FoodClaim[j].claimedBy

\* C32: when each handler runs alone and no update carries a status, in
\* every state between two handlers a listing whose status is 'available'
\* has no claim record in 'picked-up' state.
C32_AtomicAvailableNeverPickedUp ==
    NoneInFlight
    => \A id \in ListingIds :
          (ListingExists(id) /\ FoodListing[id].status = "available")
          => \A i \in 1..Len(FoodClaim) :
                FoodClaim[i].foodListingId = id
                => FoodClaim[i].status # "picked-up"

\* the status the claim record of a handler has once the handler saved it
SavedStatus(op) ==
    CASE op = "reserve" -> "pending"
      [] op = "claim" -> "picked-up"
      [] op = "unclaim" -> "cancelled"

\* C33: in reserve, claim and unclaim the step that saves the claim record
\* leaves every listing as it is and the handler goes on to the status write
\* without answering; the step of the status write either writes the new
\* status and broadcasts it, or fails: then the request is answered 500, the
\* claim ledger is as the save left it, no listing or notification changes,
\* nothing is emitted, and the handler is over.
C33_ClaimWriteBeforeStatusWrite ==
    [][\A r \in Slots :
          (Steps(r) /\ req[r].op \in {"reserve", "claim", "unclaim"})
          => /\ req[r].pc = "saveClaim"
                => /\ req'[r].pc = "updateFoodStatus"
                   /\ res'.code = 0
                   /\ FoodClaim'[req'[r].claim].foodListingId = req[r].id
                   /\ FoodClaim'[req'[r].claim].claimedBy = req[r].clerkUserId
                   /\ FoodClaim'[req'[r].claim].status = SavedStatus(req[r].op)
                   /\ UNCHANGED <<FoodListing, Notification>>
                   /\ io' = <<>>
             /\ req[r].pc = "updateFoodStatus"
                => \/ /\ FoodListing'[req[r].id].status
                            = StatusAfter(req[r].op)
                      /\ Len(io') = 1
                      /\ io'[1].event = "food-status-updated"
                      /\ res'.code \in {0, 200}
                      /\ UNCHANGED FoodClaim
                   \/ /\ res'.code = 500
                      /\ req'[r].pc = "idle"
                      /\ UNCHANGED stores
                      /\ io' = <<>>]_vars

\* a reserve was answered 500: its pending claim record is stored, the
\* listing is still 'available', nothing was emitted and no notification
\* exists
C33_Witness ==
    /\ res.op = "reserve" /\ res.code = 500
    /\ FoodListing[res.id].status = "available"
    /\ \E i \in 1..Len(FoodClaim) : /\ FoodClaim[i].foodListingId = res.id
                                    /\ FoodClaim[i].claimedBy = res.clerkUserId
                                    /\ FoodClaim[i].status = "pending"
    /\ io = <<>>
    /\ Notification = <<>>

=============================================================================
